---- MODULE Spec2Model ----
(***************************************************************************)
(* Verification model of the poly-arb matching core:                       *)
(*   - src/matching/markets.py : score consolidation, mutual-best filter   *)
(*   - src/matching/utils.py   : person / year extraction, blocking        *)
(*                                                                         *)
(* Scores are fixed-point integers in units of 1e-4: 1.0 is 10000, the     *)
(* fuzzy score 92 is 920000.  Fuzzy scores are written rounded to two      *)
(* decimals and semantic scores to four, so every value that reaches the   *)
(* consolidation is a whole number of units and score / FUZZY_SCALE is     *)
(* exact.  Market scores (0-100, two decimals) are in units of 1e-2.       *)
(***************************************************************************)
EXTENDS Integers, Sequences, FiniteSets, TLC

VARIABLES
    \* ---- mutual-best filter (markets.py steps 2 and 3) ----
    level,          \* "event": mutual_best_match, "market": _market_mutual_best
    df,             \* consolidated event pairs handed to mutual_best_match
    candidates,     \* above-threshold market pairs handed to _market_mutual_best
    result,         \* what the filter returned
    mpc,            \* "build" | "done" | "KeyError"
    \* ---- score consolidation (markets.py step 1) ----
    files,          \* MATCH_DIR: per scorer name, whether <name>.csv exists and its rows
    file_i,         \* position of load_event_matches' loop in MATCH_FILES
    frames,         \* the frames read so far
    best,           \* the frame load_event_matches returns
    lpc,            \* "setup" | "loop" | "done" | "FileNotFoundError"
    \* ---- event loading and blocking (utils.py) ----
    kalshi_raw,     \* per Kalshi event: its original titles and its cleaned title
    poly_raw,       \* per Polymarket event: the same
    kalshi_events,  \* load_kalshi_events(): one row per event
    poly_events,    \* load_poly_events(): one row per event
    poly_person_idx,\* person -> set of Polymarket rows
    poly_no_person, \* Polymarket rows without persons
    poly_years,     \* Polymarket row -> years
    k_i,            \* the Kalshi row the blocking loop is at
    pairs,          \* the candidate pairs emitted so far
    bpc,            \* "setup" | "index" | "rows" | "done"
    \* ---- _extract_blank (markets.py step 3) ----
    eb_template,    \* the event title template passed in
    eb_title,       \* the contract title passed in
    eb_blank,       \* what _extract_blank returned
    eb_pc,          \* "call" | "done"
    \* ---- match_markets_in_pair (markets.py step 3) ----
    k_markets,      \* the contracts of the Kalshi event (rows of kalshi_clean.csv)
    p_markets,      \* the contracts of the Polymarket event
    use_blank,      \* both templates contain "[blank]"
    threshold,      \* the threshold of the active mode
    k_items,        \* the Kalshi contracts with their blanks
    p_items,        \* the Polymarket contracts with their blanks
    pair_pc,        \* "call" | "items" | "scored"
    \* ---- main (markets.py entrypoint) ----
    main_pc,        \* "step1" | "step3" | "done" | "FileNotFoundError" | "KeyError"
    kclean,         \* kalshi_clean.csv as main read it
    pclean,         \* polymarket_clean.csv as main read it
    event_df,       \* the mutual-best event pairs, with the event titles
    e_i,            \* the row of event_df the market loop is at
    all_market_matches,   \* the market pairs collected so far
    blank_events,   \* event pairs matched by blank comparison
    direct_events,  \* event pairs matched by direct title comparison
    matched_events_csv,   \* data/matched_events.csv
    matched_markets_csv,  \* data/matched_markets.csv
    \* ---- generalize_strings (kalshi/process.py, polymarket/process.py) ----
    strings,        \* the list of strings passed in
    generalized,    \* what generalize_strings returned
    gen_pc,         \* "call" | "done"
    \* ---- extract_persons (utils.py), called on its own ----
    ep_title,       \* the title passed in
    ep_persons,     \* the set extract_persons returned
    ep_pc,          \* "call" | "done"
    \* ---- request_with_retries (retrieve.py, polymarket/retrieve.py) ----
    rq_server,      \* the status codes the server answers with, request by request
    rq_attempt,     \* the loop variable `attempt`
    rq_sent,        \* requests issued so far
    rq_response,    \* the status code of the last response
    rq_slept,       \* the waits of time.sleep so far, in seconds
    rq_result,      \* what the call returned: the number of the response it took
    rq_pc           \* "get" | "check" | "returned" | "HTTPError" | "MaxRetries"

matchVars == <<level, df, candidates, result, mpc>>
loadVars == <<files, file_i, frames, best, lpc>>
blockVars == <<kalshi_raw, poly_raw, kalshi_events, poly_events, poly_person_idx,
               poly_no_person, poly_years, k_i, pairs, bpc>>
blankVars == <<eb_template, eb_title, eb_blank, eb_pc>>
pairVars == <<k_markets, p_markets, use_blank, threshold, k_items, p_items, pair_pc>>
mainVars == <<main_pc, kclean, pclean, event_df, e_i, all_market_matches, blank_events,
              direct_events, matched_events_csv, matched_markets_csv>>
\* the two functions that are checked on their own
pureVars == <<strings, generalized, gen_pc, ep_title, ep_persons, ep_pc>>
retryVars == <<rq_server, rq_attempt, rq_sent, rq_response, rq_slept, rq_result, rq_pc>>
vars == <<matchVars, loadVars, blockVars, blankVars, pairVars, mainVars, pureVars, retryVars>>
\* what the steps of one stage leave alone: the state of the other stages
notMatchVars == <<loadVars, blockVars, blankVars, pairVars, mainVars, pureVars, retryVars>>
notLoadVars == <<matchVars, blockVars, blankVars, pairVars, mainVars, pureVars, retryVars>>
notBlockVars == <<matchVars, loadVars, blankVars, pairVars, mainVars, pureVars, retryVars>>
notBlankVars == <<matchVars, loadVars, blockVars, pairVars, mainVars, pureVars, retryVars>>
\* match_markets_in_pair hands its candidates to _market_mutual_best
notPairVars == <<loadVars, blockVars, blankVars, mainVars, pureVars, retryVars>>
\* main calls load_event_matches
notMainVars == <<matchVars, blockVars, blankVars, pairVars, pureVars, retryVars>>
notPureVars == <<matchVars, loadVars, blockVars, blankVars, pairVars, mainVars, retryVars>>
notRetryVars == <<matchVars, loadVars, blockVars, blankVars, pairVars, mainVars, pureVars>>

\* ------------------------------------------------------------------------
\* Bounds of the model
\* ------------------------------------------------------------------------
MaxRows == 4
\* rows over all scorer files together
MaxFileRows == 3
\* events over the two platforms together
MaxEvents == 3

KEvents == {"K1", "K2", "K3"}
PEvents == {"P1", "P2"}
\* normalised event scores at or above MIN_EVENT_SCORE (0.70, 0.81, 0.92)
EventScores == {7000, 8100, 9200}

\* contracts of the two events of one matched pair, in table order
KTickers == <<"KM1", "KM2">>
PTickers == <<"PM1", "PM2">>
\* market scores at or above the thresholds (86.00, 90.00, 100.00)
MarketScores == {8600, 9000, 10000}

\* ------------------------------------------------------------------------
\* pandas helpers
\* ------------------------------------------------------------------------
Range(s) == {s[i] : i \in DOMAIN s}

\* the distinct keys of column `by`: the groups of df.groupby(by)
GroupKeys(frame, by) == {frame[i][by] : i \in DOMAIN frame}

RECURSIVE ArgMaxScan(_, _, _, _, _, _)
\* scan of rows i.. of the group `key`; `best` is the index label of the
\* largest value seen so far (0: none yet); a later equal value does not
\* replace it, so the first occurrence of the maximum wins
ArgMaxScan(frame, by, val, key, i, cur) ==
    IF i > Len(frame) THEN cur
    ELSE IF frame[i][by] = key /\ (cur = 0 \/ frame[i][val] > frame[cur][val])
         THEN ArgMaxScan(frame, by, val, key, i + 1, i)
         ELSE ArgMaxScan(frame, by, val, key, i + 1, cur)

RECURSIVE ArgMaxScanLast(_, _, _, _, _, _)
\* a scan in which a later equal value replaces the one kept so far
ArgMaxScanLast(frame, by, val, key, i, cur) ==
    IF i > Len(frame) THEN cur
    ELSE IF frame[i][by] = key /\ (cur = 0 \/ frame[i][val] >= frame[cur][val])
         THEN ArgMaxScanLast(frame, by, val, key, i + 1, i)
         ELSE ArgMaxScanLast(frame, by, val, key, i + 1, cur)

\* the last occurrence of the maximum instead of the first
IdxmaxLast(frame, by, val, key) == ArgMaxScanLast(frame, by, val, key, 1, 0)

\* an off-by-one scan that never looks at the first row
IdxmaxSkipFirst(frame, by, val, key) == ArgMaxScan(frame, by, val, key, 2, 0)

\* frame.groupby(by)[val].idxmax() for the group `key`
idxmax(frame, by, val, key) == ArgMaxScan(frame, by, val, key, 1, 0)

\* set(zip(frame.loc[idx, a], frame.loc[idx, b])) for idx = groupby(by)[val].idxmax()
BestPairs(frame, by, a, b, val) ==
    LET best_idx == {idxmax(frame, by, val, key) : key \in GroupKeys(frame, by)} \ {0}
    IN  {<<frame[i][a], frame[i][b]>> : i \in best_idx}

\* one side's winners are enough
MutualUnion(frame, a, b, val) ==
    BestPairs(frame, a, a, b, val) \cup BestPairs(frame, b, a, b, val)

\* mutual = k_pairs & p_pairs
Mutual(frame, a, b, val) ==
    BestPairs(frame, a, a, b, val) \cap BestPairs(frame, b, a, b, val)

\* frame[mask]: the rows whose pair is in `mutual`, in row order
Masked(frame, a, b, val) ==
    SelectSeq(frame, LAMBDA r : <<r[a], r[b]>> \in Mutual(frame, a, b, val))

\* the frame without its row i
Remove(frame, i) == SubSeq(frame, 1, i - 1) \o SubSeq(frame, i + 1, Len(frame))

RECURSIVE SortedDesc(_, _)
\* the orders sort_values(val, ascending=False) may return: every ordering
\* of the rows by descending value (the default sort is not stable, so the
\* order of equal values is not fixed)
SortedDesc(frame, val) ==
    IF frame = <<>> THEN {<<>>}
    ELSE LET tops == {i \in DOMAIN frame :
                         \A j \in DOMAIN frame : frame[j][val] <= frame[i][val]}
         IN  UNION {{<<frame[i]>> \o rest : rest \in SortedDesc(Remove(frame, i), val)} :
                       i \in tops}

\* the surviving rows of mutual_best_match, before the final sort
EventSurvivors(frame) == Masked(frame, "kalshi_event", "poly_event", "score")

\* _market_mutual_best(candidates)
MarketSurvivors(cands) ==
    IF cands = <<>> THEN <<>>
    ELSE Masked(cands, "kalshi_ticker", "poly_ticker", "market_score")

BlockIdle ==
    /\ kalshi_raw = <<>> /\ poly_raw = <<>> /\ kalshi_events = <<>> /\ poly_events = <<>>
    /\ poly_person_idx = <<>> /\ poly_no_person = {} /\ poly_years = <<>>
    /\ k_i = 0 /\ pairs = <<>> /\ bpc = "idle"

MatchIdle ==
    /\ level = "none" /\ df = <<>> /\ candidates = <<>> /\ result = <<>> /\ mpc = "idle"

BlankIdle ==
    /\ eb_template = <<>> /\ eb_title = <<>> /\ eb_blank = <<>> /\ eb_pc = "idle"

PairIdle ==
    /\ k_markets = <<>> /\ p_markets = <<>> /\ use_blank = FALSE /\ threshold = 0
    /\ k_items = <<>> /\ p_items = <<>> /\ pair_pc = "idle"

\* an output file main has not written holds what was there before the run
Untouched == [state |-> "untouched", rows |-> <<>>]

MainIdle ==
    /\ main_pc = "idle" /\ kclean = <<>> /\ pclean = <<>> /\ event_df = <<>> /\ e_i = 0
    /\ all_market_matches = <<>> /\ blank_events = 0 /\ direct_events = 0
    /\ matched_events_csv = Untouched /\ matched_markets_csv = Untouched

PureIdle ==
    /\ strings = <<>> /\ generalized = <<>> /\ gen_pc = "idle"
    /\ ep_title = <<>> /\ ep_persons = {} /\ ep_pc = "idle"

RetryIdle ==
    /\ rq_server = <<>> /\ rq_attempt = 0 /\ rq_sent = 0 /\ rq_response = 0
    /\ rq_slept = <<>> /\ rq_result = 0 /\ rq_pc = "idle"

PairOf(r) == <<r.kalshi_event, r.poly_event>>
TickersOf(c) == <<c.kalshi_ticker, c.poly_ticker>>

\* ------------------------------------------------------------------------
\* Step 1: load_event_matches
\* ------------------------------------------------------------------------
MATCH_FILES == <<"semantic_title", "semantic_full", "fuzzy_title", "fuzzy_full">>
FUZZY_SCALE == 100
\* 0.70
MIN_EVENT_SCORE == 7000

\* "fuzzy" in name
IsFuzzyName(name) == name \in {"fuzzy_title", "fuzzy_full"}

\* the event pairs and the native scores the scorer files of the model hold:
\* semantic 0.65 and 0.81, fuzzy 70.00 and 92.00
LoadPairs == {<<"K1", "P1">>, <<"K2", "P1">>, <<"K2", "P2">>}
SemanticScores == {6500, 8100}
FuzzyScores == {700000, 920000}
NativeScores(name) == IF IsFuzzyName(name) THEN FuzzyScores ELSE SemanticScores

\* df["score"] = df["score"] / FUZZY_SCALE for a fuzzy file
Normalise(name, rows) ==
    IF IsFuzzyName(name)
    THEN [i \in DOMAIN rows |-> [rows[i] EXCEPT !.score = @ \div FUZZY_SCALE]]
    ELSE rows

\* only the first frame read is used
ConcatFirst(fs) == IF fs = <<>> THEN <<>> ELSE Head(fs)

RECURSIVE Concat(_)
\* pd.concat(frames, ignore_index=True)
Concat(fs) == IF fs = <<>> THEN <<>> ELSE Head(fs) \o Concat(Tail(fs))

\* keeps the last row of each pair
DropDuplicatesLast(frame) ==
    LET keep == {i \in DOMAIN frame :
                    \A j \in (i + 1)..Len(frame) : PairOf(frame[j]) # PairOf(frame[i])}
        RECURSIVE Pick(_)
        Pick(i) == IF i > Len(frame) THEN <<>>
                   ELSE (IF i \in keep THEN <<frame[i]>> ELSE <<>>) \o Pick(i + 1)
    IN  Pick(1)

\* drop_duplicates(["kalshi_event", "poly_event"], keep="first")
DropDuplicates(frame) ==
    LET keep == {i \in DOMAIN frame :
                    \A j \in 1..(i - 1) : PairOf(frame[j]) # PairOf(frame[i])}
        RECURSIVE Pick(_)
        Pick(i) == IF i > Len(frame) THEN <<>>
                   ELSE (IF i \in keep THEN <<frame[i]>> ELSE <<>>) \o Pick(i + 1)
    IN  Pick(1)

\* the floor taken as exclusive
AboveFloorStrict(frame) == SelectSeq(frame, LAMBDA r : r.score > MIN_EVENT_SCORE)

\* best[best["score"] >= MIN_EVENT_SCORE]
AboveFloor(frame) == SelectSeq(frame, LAMBDA r : r.score >= MIN_EVENT_SCORE)

\* the frames load_event_matches may return for the frames read: one per
\* order the sort may leave equal scores in
Consolidated(fs) ==
    {AboveFloor(DropDuplicates(sorted)) : sorted \in SortedDesc(Concat(fs), "score")}

TotalFileRows ==
    LET RECURSIVE Sum(_)
        Sum(i) == IF i > Len(MATCH_FILES) THEN 0
                  ELSE Len(files[MATCH_FILES[i]].rows) + Sum(i + 1)
    IN  Sum(1)

LoadIdle ==
    /\ files = [name \in Range(MATCH_FILES) |-> [exists |-> FALSE, rows |-> <<>>]]
    /\ file_i = 0 /\ frames = <<>> /\ best = <<>> /\ lpc = "idle"

\* any subset of the four scorer outputs is on disk
LoadStart ==
    /\ \E present \in SUBSET Range(MATCH_FILES) :
          files = [name \in Range(MATCH_FILES) |->
                      [exists |-> name \in present, rows |-> <<>>]]
    /\ file_i = 1
    /\ frames = <<>>
    /\ best = <<>>
    /\ lpc = "setup"

LoadInit == LoadStart /\ MatchIdle /\ BlockIdle /\ BlankIdle /\ PairIdle /\ MainIdle /\ PureIdle /\ RetryIdle

\* a scorer wrote one more row to its file, on its own scale
AddFileRow ==
    /\ lpc = "setup" /\ TotalFileRows < MaxFileRows
    /\ \E name \in Range(MATCH_FILES) :
          /\ files[name].exists
          /\ \E pair \in LoadPairs, s \in NativeScores(name) :
                files' = [files EXCEPT ![name].rows =
                             Append(@, [kalshi_event |-> pair[1],
                                        poly_event |-> pair[2], score |-> s])]
    /\ UNCHANGED <<file_i, frames, best, lpc, notLoadVars>>

\* load_event_matches is called
StartLoad ==
    /\ lpc = "setup"
    /\ lpc' = "loop"
    /\ UNCHANGED <<files, file_i, frames, best, notLoadVars>>

\* loop body, file missing: [skip]
SkipFile ==
    /\ lpc = "loop" /\ file_i <= Len(MATCH_FILES)
    /\ ~files[MATCH_FILES[file_i]].exists
    /\ file_i' = file_i + 1
    /\ UNCHANGED <<files, frames, best, lpc, notLoadVars>>

\* loop body, file present: read, normalise, append
ReadFile ==
    /\ lpc = "loop" /\ file_i <= Len(MATCH_FILES)
    /\ files[MATCH_FILES[file_i]].exists
    /\ frames' = Append(frames, Normalise(MATCH_FILES[file_i], files[MATCH_FILES[file_i]].rows))
    /\ file_i' = file_i + 1
    /\ UNCHANGED <<files, best, lpc, notLoadVars>>

\* if not frames: raise FileNotFoundError
RaiseNoFiles ==
    /\ lpc = "loop" /\ file_i > Len(MATCH_FILES)
    /\ frames = <<>>
    /\ lpc' = "FileNotFoundError"
    /\ UNCHANGED <<files, file_i, frames, best, notLoadVars>>

\* concat, sort, drop duplicates, apply the floor, return
Consolidate ==
    /\ lpc = "loop" /\ file_i > Len(MATCH_FILES)
    /\ frames # <<>>
    /\ best' \in Consolidated(frames)
    /\ lpc' = "done"
    /\ UNCHANGED <<files, file_i, frames, notLoadVars>>

LoadNext == AddFileRow \/ StartLoad \/ SkipFile \/ ReadFile \/ RaiseNoFiles \/ Consolidate

SpecLoad == LoadInit /\ [][LoadNext]_vars

\* ------------------------------------------------------------------------
\* Strings.  A string is the sequence of its characters, a character a
\* one-character string.
\* ------------------------------------------------------------------------
UPPER == <<"A","B","C","D","E","F","G","H","I","J","K","L","M",
           "N","O","P","Q","R","S","T","U","V","W","X","Y","Z">>
LOWER == <<"a","b","c","d","e","f","g","h","i","j","k","l","m",
           "n","o","p","q","r","s","t","u","v","w","x","y","z">>
DIGITS == <<"0","1","2","3","4","5","6","7","8","9">>

IsUpper(c) == \E i \in DOMAIN UPPER : UPPER[i] = c
IsLower(c) == \E i \in DOMAIN LOWER : LOWER[i] = c
IsAlpha(c) == IsUpper(c) \/ IsLower(c)
IsDigit(c) == \E i \in DOMAIN DIGITS : DIGITS[i] = c
\* whitespace; a space is the only whitespace character of the model's texts
IsSpace(c) == c = " "
\* \w of a regular expression
IsWordChar(c) == IsAlpha(c) \/ IsDigit(c) \/ c = "_"

ToLower(c) == IF IsUpper(c) THEN LOWER[CHOOSE i \in DOMAIN UPPER : UPPER[i] = c] ELSE c
\* str.lower()
lower(s) == [i \in DOMAIN s |-> ToLower(s[i])]

RECURSIVE SplitFrom(_, _, _)
SplitFrom(s, i, cur) ==
    IF i > Len(s) THEN (IF cur = <<>> THEN <<>> ELSE <<cur>>)
    ELSE IF IsSpace(s[i])
         THEN (IF cur = <<>> THEN <<>> ELSE <<cur>>) \o SplitFrom(s, i + 1, <<>>)
         ELSE SplitFrom(s, i + 1, Append(cur, s[i]))
\* str.split(): the maximal runs of non-whitespace characters
split(s) == SplitFrom(s, 1, <<>>)

\* str.strip()
strip(s) ==
    LET inked == {i \in DOMAIN s : ~IsSpace(s[i])}
    IN  IF inked = {} THEN <<>>
        ELSE SubSeq(s, CHOOSE i \in inked : \A j \in inked : i <= j,
                       CHOOSE i \in inked : \A j \in inked : j <= i)

\* a float NaN where a string is expected (an empty CSV field)
NaN == <<"NaN">>
\* isinstance(x, str)
IsStr(x) == x # NaN

\* ------------------------------------------------------------------------
\* utils.py: stop-lists
\* ------------------------------------------------------------------------
\* US_STATES, each word spelt as its sequence of characters
US_STATES == {
    <<"a","l","a","b","a","m","a">>, <<"a","l","a","s","k","a">>, <<"a","r","i","z","o","n","a">>,
    <<"a","r","k","a","n","s","a","s">>, <<"c","a","l","i","f","o","r","n","i","a">>,
    <<"c","o","l","o","r","a","d","o">>, <<"c","o","n","n","e","c","t","i","c","u","t">>,
    <<"d","e","l","a","w","a","r","e">>, <<"f","l","o","r","i","d","a">>, <<"g","e","o","r","g","i","a">>,
    <<"h","a","w","a","i","i">>, <<"i","d","a","h","o">>, <<"i","l","l","i","n","o","i","s">>,
    <<"i","n","d","i","a","n","a">>, <<"i","o","w","a">>, <<"k","a","n","s","a","s">>,
    <<"k","e","n","t","u","c","k","y">>, <<"l","o","u","i","s","i","a","n","a">>, <<"m","a","i","n","e">>,
    <<"m","a","r","y","l","a","n","d">>, <<"m","a","s","s","a","c","h","u","s","e","t","t","s">>,
    <<"m","i","c","h","i","g","a","n">>, <<"m","i","n","n","e","s","o","t","a">>,
    <<"m","i","s","s","i","s","s","i","p","p","i">>, <<"m","i","s","s","o","u","r","i">>,
    <<"m","o","n","t","a","n","a">>, <<"n","e","b","r","a","s","k","a">>, <<"n","e","v","a","d","a">>,
    <<"n","e","w">>, <<"h","a","m","p","s","h","i","r","e">>, <<"j","e","r","s","e","y">>,
    <<"m","e","x","i","c","o">>, <<"y","o","r","k">>, <<"n","o","r","t","h">>, <<"s","o","u","t","h">>,
    <<"c","a","r","o","l","i","n","a">>, <<"d","a","k","o","t","a">>, <<"o","h","i","o">>,
    <<"o","k","l","a","h","o","m","a">>, <<"o","r","e","g","o","n">>,
    <<"p","e","n","n","s","y","l","v","a","n","i","a">>, <<"r","h","o","d","e">>,
    <<"i","s","l","a","n","d">>, <<"t","e","n","n","e","s","s","e","e">>, <<"t","e","x","a","s">>,
    <<"u","t","a","h">>, <<"v","e","r","m","o","n","t">>, <<"v","i","r","g","i","n","i","a">>,
    <<"w","a","s","h","i","n","g","t","o","n">>, <<"w","e","s","t">>,
    <<"w","i","s","c","o","n","s","i","n">>, <<"w","y","o","m","i","n","g">> }

\* COUNTRIES
COUNTRIES == {
    <<"i","r","a","n">>, <<"i","r","a","q">>, <<"c","h","i","n","a">>, <<"r","u","s","s","i","a">>,
    <<"u","k","r","a","i","n","e">>, <<"i","s","r","a","e","l">>, <<"g","a","z","a">>,
    <<"l","e","b","a","n","o","n">>, <<"s","y","r","i","a">>,
    <<"a","f","g","h","a","n","i","s","t","a","n">>, <<"p","a","k","i","s","t","a","n">>,
    <<"i","n","d","i","a">>, <<"j","a","p","a","n">>, <<"k","o","r","e","a">>, <<"t","a","i","w","a","n">>,
    <<"m","e","x","i","c","o">>, <<"c","a","n","a","d","a">>, <<"c","u","b","a">>,
    <<"v","e","n","e","z","u","e","l","a">>, <<"g","r","e","e","n","l","a","n","d">>,
    <<"g","e","r","m","a","n","y">>, <<"f","r","a","n","c","e">>, <<"b","r","i","t","a","i","n">>,
    <<"e","n","g","l","a","n","d">>, <<"e","u","r","o","p","e">>, <<"a","f","r","i","c","a">>,
    <<"b","r","a","z","i","l">>, <<"c","o","l","o","m","b","i","a">>, <<"p","a","n","a","m","a">>,
    <<"e","l">>, <<"s","a","l","v","a","d","o","r">>, <<"h","o","n","d","u","r","a","s">>,
    <<"g","u","a","t","e","m","a","l","a">>, <<"h","a","i","t","i">>, <<"d","o","m","i","n","i","c","a","n">> }

\* GOVT_TERMS
GOVT_TERMS == {
    <<"s","e","n","a","t","e">>, <<"h","o","u","s","e">>, <<"c","o","n","g","r","e","s","s">>,
    <<"p","r","e","s","i","d","e","n","t">>, <<"g","o","v","e","r","n","o","r">>,
    <<"s","e","n","a","t","o","r">>, <<"r","e","p","r","e","s","e","n","t","a","t","i","v","e">>,
    <<"s","p","e","a","k","e","r">>, <<"m","a","j","o","r","i","t","y">>,
    <<"m","i","n","o","r","i","t","y">>, <<"l","e","a","d","e","r">>, <<"w","h","i","p">>,
    <<"c","a","b","i","n","e","t">>, <<"s","e","c","r","e","t","a","r","y">>,
    <<"a","d","m","i","n","i","s","t","r","a","t","i","o","n">>, <<"d","e","p","a","r","t","m","e","n","t">>,
    <<"j","u","s","t","i","c","e">>, <<"d","e","f","e","n","s","e">>, <<"s","t","a","t","e">>,
    <<"t","r","e","a","s","u","r","y">>, <<"i","n","t","e","r","i","o","r">>,
    <<"c","o","m","m","e","r","c","e">>, <<"e","n","e","r","g","y">>,
    <<"e","d","u","c","a","t","i","o","n">>, <<"h","o","m","e","l","a","n","d">>,
    <<"s","e","c","u","r","i","t","y">>, <<"a","t","t","o","r","n","e","y">>,
    <<"g","e","n","e","r","a","l">>, <<"c","o","u","r","t">>, <<"s","u","p","r","e","m","e">>,
    <<"f","e","d","e","r","a","l">>, <<"d","i","s","t","r","i","c","t">>, <<"c","i","r","c","u","i","t">>,
    <<"j","u","d","g","e">>, <<"c","h","i","e","f">>, <<"a","s","s","o","c","i","a","t","e">>,
    <<"s","o","l","i","c","i","t","o","r">>, <<"m","a","r","s","h","a","l">>, <<"f","b","i">>,
    <<"c","i","a">>, <<"n","s","a">>, <<"d","o","j">>, <<"d","h","s">>, <<"e","p","a">>, <<"f","d","a">>,
    <<"s","e","c">>, <<"f","t","c">>, <<"f","c","c">>, <<"u","s","d","a">>,
    <<"d","i","r","e","c","t","o","r">>, <<"c","h","a","i","r">>, <<"c","h","a","i","r","m","a","n">>,
    <<"c","h","a","i","r","w","o","m","a","n">>, <<"c","o","m","m","i","s","s","i","o","n","e","r">>,
    <<"i","n","s","p","e","c","t","o","r">>, <<"c","o","u","n","s","e","l">>,
    <<"s","p","e","c","i","a","l">>, <<"a","d","v","i","s","o","r">>, <<"a","i","d","e">>,
    <<"a","m","b","a","s","s","a","d","o","r">>, <<"e","n","v","o","y">>, <<"d","i","p","l","o","m","a","t">> }

\* POLITICAL_TERMS
POLITICAL_TERMS == {
    <<"r","e","p","u","b","l","i","c","a","n">>, <<"d","e","m","o","c","r","a","t","i","c">>,
    <<"d","e","m","o","c","r","a","t">>, <<"d","e","m","o","c","r","a","t","s">>, <<"g","o","p">>,
    <<"p","a","r","t","y">>, <<"p","r","i","m","a","r","y">>, <<"e","l","e","c","t","i","o","n">>,
    <<"v","o","t","e">>, <<"b","a","l","l","o","t">>, <<"c","a","u","c","u","s">>,
    <<"n","o","m","i","n","a","t","i","o","n">>, <<"n","o","m","i","n","e","e">>,
    <<"c","a","n","d","i","d","a","t","e">>, <<"c","a","m","p","a","i","g","n">>, <<"p","o","l","l">>,
    <<"i","m","p","e","a","c","h","m","e","n","t">>, <<"i","m","p","e","a","c","h">>,
    <<"r","e","s","i","g","n">>, <<"r","e","s","i","g","n","a","t","i","o","n">>, <<"b","i","l","l">>,
    <<"a","c","t">>, <<"l","a","w">>, <<"r","e","s","o","l","u","t","i","o","n">>,
    <<"b","u","d","g","e","t">>, <<"t","a","r","i","f","f">>, <<"t","a","r","i","f","f","s">>,
    <<"e","x","e","c","u","t","i","v","e">>, <<"o","r","d","e","r">>, <<"v","e","t","o">>,
    <<"p","a","r","d","o","n">>, <<"c","o","m","m","u","t","e">>,
    <<"i","n","a","u","g","u","r","a","t","i","o","n">>, <<"o","a","t","h">>,
    <<"s","w","e","a","r","i","n","g">> }

\* MISC_SKIP
MISC_SKIP == {
    <<"w","i","l","l">>, <<"t","h","e">>, <<"b","e">>, <<"i","s">>, <<"a","r","e">>, <<"w","a","s">>,
    <<"w","e","r","e">>, <<"h","a","s">>, <<"h","a","v","e">>, <<"h","a","d">>, <<"d","o">>,
    <<"d","o","e","s">>, <<"d","i","d">>, <<"c","a","n">>, <<"c","o","u","l","d">>, <<"w","o","u","l","d">>,
    <<"s","h","o","u","l","d">>, <<"s","h","a","l","l">>, <<"m","a","y">>, <<"m","i","g","h","t">>,
    <<"m","u","s","t">>, <<"n","o","t">>, <<"n","o">>, <<"y","e","s">>, <<"a","n","d">>, <<"o","r">>,
    <<"b","u","t">>, <<"i","f">>, <<"t","h","e","n">>, <<"t","h","a","n">>, <<"t","h","a","t">>,
    <<"t","h","i","s">>, <<"f","o","r">>, <<"f","r","o","m">>, <<"w","i","t","h">>,
    <<"w","i","t","h","o","u","t">>, <<"b","e","f","o","r","e">>, <<"a","f","t","e","r">>,
    <<"d","u","r","i","n","g">>, <<"a","b","o","u","t">>, <<"a","b","o","v","e">>, <<"b","e","l","o","w">>,
    <<"b","e","t","w","e","e","n">>, <<"t","h","r","o","u","g","h">>, <<"i","n","t","o">>, <<"o","n">>,
    <<"i","n">>, <<"a","t">>, <<"t","o">>, <<"o","f">>, <<"b","y">>, <<"a","s">>, <<"a","n">>, <<"a">>,
    <<"a","n","y">>, <<"a","l","l">>, <<"e","a","c","h">>, <<"e","v","e","r","y">>, <<"s","o","m","e">>,
    <<"m","o","r","e">>, <<"m","o","s","t">>, <<"m","a","n","y">>, <<"w","h","a","t">>, <<"h","o","w">>,
    <<"w","h","o">>, <<"w","h","e","n">>, <<"w","h","e","r","e">>, <<"w","h","i","c","h">>, <<"w","h","y">>,
    <<"h","i","s">>, <<"h","e","r">>, <<"i","t","s">>, <<"t","h","e","i","r">>, <<"o","u","r">>, <<"m","y">>,
    <<"y","o","u","r">>, <<"h","e">>, <<"s","h","e">>, <<"i","t">>, <<"t","h","e","y">>, <<"w","e">>,
    <<"y","o","u">>, <<"u","s">>, <<"m","e">>, <<"w","i","n">>, <<"l","o","s","e">>, <<"p","a","s","s">>,
    <<"f","a","i","l">>, <<"a","p","p","r","o","v","e">>, <<"c","o","n","f","i","r","m">>,
    <<"r","e","j","e","c","t">>, <<"o","v","e","r">>, <<"u","n","d","e","r">>, <<"p","e","r">>, <<"u","p">>,
    <<"d","o","w","n">>, <<"o","u","t">>, <<"j","a","n">>, <<"f","e","b">>, <<"m","a","r">>, <<"a","p","r">>,
    <<"j","u","n">>, <<"j","u","l">>, <<"a","u","g">>, <<"s","e","p">>, <<"o","c","t">>, <<"n","o","v">>,
    <<"d","e","c">>, <<"j","a","n","u","a","r","y">>, <<"f","e","b","r","u","a","r","y">>,
    <<"m","a","r","c","h">>, <<"a","p","r","i","l">>, <<"j","u","n","e">>, <<"j","u","l","y">>,
    <<"a","u","g","u","s","t">>, <<"s","e","p","t","e","m","b","e","r">>, <<"o","c","t","o","b","e","r">>,
    <<"n","o","v","e","m","b","e","r">>, <<"d","e","c","e","m","b","e","r">>, <<"m","o","n","d","a","y">>,
    <<"t","u","e","s","d","a","y">>, <<"w","e","d","n","e","s","d","a","y">>,
    <<"t","h","u","r","s","d","a","y">>, <<"f","r","i","d","a","y">>, <<"s","a","t","u","r","d","a","y">>,
    <<"s","u","n","d","a","y">>, <<"s","p","e","c","i","a","l">>, <<"g","e","n","e","r","a","l">>,
    <<"n","a","t","i","o","n","a","l">>, <<"a","n","n","u","a","l">>, <<"f","i","r","s","t">>,
    <<"s","e","c","o","n","d">>, <<"t","h","i","r","d">>, <<"n","e","x","t">>, <<"l","a","s","t">>,
    <<"u","n","i","t","e","d">>, <<"s","t","a","t","e","s">>, <<"a","m","e","r","i","c","a">>,
    <<"a","m","e","r","i","c","a","n">>, <<"u","s","a">>, <<"m","r">>, <<"m","r","s">>, <<"m","s">>,
    <<"d","r">>, <<"j","r">>, <<"s","r">>, <<"s","t">> }
NON_PERSON_WORDS == US_STATES \cup COUNTRIES \cup GOVT_TERMS \cup POLITICAL_TERMS \cup MISC_SKIP

MIN_NAME_LEN == 3

\* ------------------------------------------------------------------------
\* utils.py: person and year extraction
\* ------------------------------------------------------------------------
\* re.sub(r"[^a-zA-Z\-']", "", raw_word)
CleanWord(raw_word) == SelectSeq(raw_word, LAMBDA c : IsAlpha(c) \/ c = "-" \/ c = "'")
\* re.sub(r"[^a-zA-Z]", "", words[1])
CleanNext(word) == SelectSeq(word, IsAlpha)

\* the first word taken like any other
FirstWordAlways(words) == TRUE

\* the test on the very first word: kept only if the next word is
\* capitalised and not a known non-person word
FirstWordOk(words) ==
    /\ Len(words) > 1
    /\ LET next_clean == CleanNext(words[2])
       IN  /\ next_clean # <<>>
           /\ IsUpper(next_clean[1])
           /\ lower(next_clean) \notin NON_PERSON_WORDS

\* extract_persons(original_title); words[1] is Python's words[0]
extract_persons(original_title) ==
    IF ~IsStr(original_title) THEN {}
    ELSE LET words == split(original_title)
             Kept(i) == LET clean == CleanWord(words[i])
                        IN  /\ Len(clean) >= MIN_NAME_LEN
                            /\ IsUpper(clean[1])
                            /\ lower(clean) \notin NON_PERSON_WORDS
                            /\ (i = 1 => FirstWordOk(words))
         IN  {lower(CleanWord(words[i])) : i \in {j \in DOMAIN words : Kept(j)}}

DigitVal(c) == (CHOOSE i \in DOMAIN DIGITS : DIGITS[i] = c) - 1
\* int(y) of a string of digits
ToInt(y) ==
    LET RECURSIVE Val(_)
        Val(n) == IF n = 0 THEN 0 ELSE 10 * Val(n - 1) + DigitVal(y[n])
    IN  Val(Len(y))

\* extract_years(text): re.findall(r"\b(20[2-3]\d)\b", text) as integers.  A
\* match starts and ends at a word boundary, so no two matches overlap.
extract_years(text) ==
    IF ~IsStr(text) THEN {}
    ELSE LET MatchAt(i) ==
                 /\ i + 3 <= Len(text)
                 /\ text[i] = "2" /\ text[i + 1] = "0"
                 /\ text[i + 2] \in {"2", "3"}
                 /\ IsDigit(text[i + 3])
                 /\ (i = 1 \/ ~IsWordChar(text[i - 1]))
                 /\ (i + 3 = Len(text) \/ ~IsWordChar(text[i + 4]))
         IN  {ToInt(SubSeq(text, i, i + 3)) : i \in {j \in DOMAIN text : MatchAt(j)}}

\* "Will Trump win Ohio in 2028?"
TitleTrumpOhio ==
    <<"W","i","l","l"," ","T","r","u","m","p"," ","w","i","n"," ","O","h","i","o"," ","i","n"," ",
      "2","0","2","8","?">>

\* "Will Trump win Texas in 2028?"
TitleTrumpTexas ==
    <<"W","i","l","l"," ","T","r","u","m","p"," ","w","i","n"," ","T","e","x","a","s"," ","i","n",
      " ","2","0","2","8","?">>

\* "Trump wins Ohio 2028 election"
TitleTrumpWins ==
    <<"T","r","u","m","p"," ","w","i","n","s"," ","O","h","i","o"," ","2","0","2","8"," ","e","l",
      "e","c","t","i","o","n">>

\* "Will Biden resign?"
TitleBiden ==
    <<"W","i","l","l"," ","B","i","d","e","n"," ","r","e","s","i","g","n","?">>

\* "Will Trump beat Biden?"
TitleTrumpBiden ==
    <<"W","i","l","l"," ","T","r","u","m","p"," ","b","e","a","t"," ","B","i","d","e","n","?">>

\* "will it pass"
TextNoYear ==
    <<"w","i","l","l"," ","i","t"," ","p","a","s","s">>

\* "before 2026"
Text2026 ==
    <<"b","e","f","o","r","e"," ","2","0","2","6">>

\* "by december 31, 2025"
Text2025 ==
    <<"b","y"," ","d","e","c","e","m","b","e","r"," ","3","1",","," ","2","0","2","5">>

\* "in 2024"
Text2024 ==
    <<"i","n"," ","2","0","2","4">>

\* "in 2022 or 2026"
Text2022or2026 ==
    <<"i","n"," ","2","0","2","2"," ","o","r"," ","2","0","2","6">>

\* "resolves yes"
RulesText ==
    <<"r","e","s","o","l","v","e","s"," ","y","e","s">>

\* ------------------------------------------------------------------------
\* utils.py: event loading and blocking
\* ------------------------------------------------------------------------
\* The texts of the snapshot.  A row of the raw tables names its texts by
\* their position in these pools.
\* the original titles of the contracts of one event (kalshi_processed.csv /
\* polymarket_processed.csv), as groupby(..)["title"].apply(list) gives them
OrigTitleLists ==
    << <<TitleTrumpOhio, TitleTrumpTexas>>, <<TitleTrumpWins>>,
       <<TitleBiden>>, <<TitleTrumpBiden>> >>
\* the generalised, cleaned event titles (kalshi_clean.csv / polymarket_clean.csv);
\* every event has the rules text RulesText and, on Polymarket, no description
EventTitles == <<TextNoYear, Text2026, Text2025, Text2024, Text2022or2026>>

\* (title + " " + rules).str.strip()
KalshiText(event_title, event_rules) == strip(event_title \o <<" ">> \o event_rules)
\* (title + " " + rules + " " + description).str.strip()
PolyText(event_title, event_rules, event_description) ==
    strip(event_title \o <<" ">> \o event_rules \o <<" ">> \o event_description)

\* set().union(*(extract_persons(t) for t in titles))
PersonsOf(titles) == UNION {extract_persons(titles[i]) : i \in DOMAIN titles}

\* the persons and years of the pools' texts, evaluated once
PoolPersons ==
    <<PersonsOf(OrigTitleLists[1]), PersonsOf(OrigTitleLists[2]),
      PersonsOf(OrigTitleLists[3]), PersonsOf(OrigTitleLists[4])>>
KalshiPoolYears ==
    <<extract_years(KalshiText(EventTitles[1], RulesText)),
      extract_years(KalshiText(EventTitles[2], RulesText)),
      extract_years(KalshiText(EventTitles[3], RulesText)),
      extract_years(KalshiText(EventTitles[4], RulesText)),
      extract_years(KalshiText(EventTitles[5], RulesText))>>
\* fillna(""): the missing description is the empty string
PolyPoolYears ==
    <<extract_years(PolyText(EventTitles[1], RulesText, <<>>)),
      extract_years(PolyText(EventTitles[2], RulesText, <<>>)),
      extract_years(PolyText(EventTitles[3], RulesText, <<>>)),
      extract_years(PolyText(EventTitles[4], RulesText, <<>>)),
      extract_years(PolyText(EventTitles[5], RulesText, <<>>))>>

\* load_kalshi_events(): one row per event, with its persons and years
LoadKalshiTable(raws) ==
    [i \in DOMAIN raws |->
        [event_ticker |-> raws[i].event_ticker,
         persons      |-> PoolPersons[raws[i].orig_titles],
         years        |-> KalshiPoolYears[raws[i].event_title]]]

\* load_poly_events(): one row per event, with its persons and years
LoadPolyTable(raws) ==
    [i \in DOMAIN raws |->
        [event_ticker |-> raws[i].event_ticker,
         persons      |-> PoolPersons[raws[i].orig_titles],
         years        |-> PolyPoolYears[raws[i].event_title]]]

Abs(x) == IF x < 0 THEN -x ELSE x

\* only equal years overlap
YearsEqual(years_a, years_b) == \E ya \in years_a, yb \in years_b : ya = yb

\* _years_overlap(years_a, years_b)
years_overlap(years_a, years_b) ==
    \E ya \in years_a, yb \in years_b : Abs(ya - yb) <= 1

\* poly_person_idx.get(p, set())
Lookup(idx, p) == IF p \in DOMAIN idx THEN idx[p] ELSE {}

\* person blocking in which a Kalshi event without persons matches every
\* Polymarket event
PersonCandidatesOpen(k_persons, idx, no_person, all_poly) ==
    IF k_persons # {} THEN UNION {Lookup(idx, p) : p \in k_persons} ELSE all_poly

\* person blocking in which every person of the Kalshi event must be shared
PersonCandidatesAnd(k_persons, idx, no_person, all_poly) ==
    IF k_persons # {}
    THEN {pi \in all_poly : \A p \in k_persons : pi \in Lookup(idx, p)}
    ELSE no_person

\* person blocking of one Kalshi event: the set `candidates`
PersonCandidates(k_persons, idx, no_person, all_poly) ==
    IF k_persons # {} THEN UNION {Lookup(idx, p) : p \in k_persons} ELSE no_person

\* date blocking of one candidate: the pair is appended to `final`
DateKeeps(k_years, p_years) ==
    ~(k_years # {} /\ p_years # {} /\ ~years_overlap(k_years, p_years))

\* the orders in which a set may be iterated
Orderings(S) ==
    LET n == Cardinality(S)
    IN  {f \in [1..n -> S] : \A i, j \in 1..n : i # j => f[i] # f[j]}

BlockInit ==
    /\ kalshi_raw = <<>> /\ poly_raw = <<>> /\ kalshi_events = <<>> /\ poly_events = <<>>
    /\ poly_person_idx = <<>> /\ poly_no_person = {} /\ poly_years = <<>>
    /\ k_i = 1 /\ pairs = <<>> /\ bpc = "setup"
    /\ MatchIdle /\ LoadIdle /\ BlankIdle /\ PairIdle /\ MainIdle /\ PureIdle /\ RetryIdle

\* the snapshot holds one more Kalshi event
AddKalshiEvent ==
    /\ bpc = "setup" /\ Len(kalshi_raw) + Len(poly_raw) < MaxEvents
    /\ \E titles \in DOMAIN OrigTitleLists, title \in DOMAIN EventTitles :
          kalshi_raw' = Append(kalshi_raw,
              [event_ticker |-> Len(kalshi_raw) + 1, orig_titles |-> titles,
               event_title |-> title])
    /\ UNCHANGED <<poly_raw, kalshi_events, poly_events, poly_person_idx,
                   poly_no_person, poly_years, k_i, pairs, bpc, notBlockVars>>

\* the snapshot holds one more Polymarket event
AddPolyEvent ==
    /\ bpc = "setup" /\ Len(kalshi_raw) + Len(poly_raw) < MaxEvents
    /\ \E titles \in DOMAIN OrigTitleLists, title \in DOMAIN EventTitles :
          poly_raw' = Append(poly_raw,
              [event_ticker |-> Len(poly_raw) + 1, orig_titles |-> titles,
               event_title |-> title])
    /\ UNCHANGED <<kalshi_raw, kalshi_events, poly_events, poly_person_idx,
                   poly_no_person, poly_years, k_i, pairs, bpc, notBlockVars>>

\* a scorer's main: kalshi = load_kalshi_events(); poly = load_poly_events()
LoadEvents ==
    /\ bpc = "setup"
    /\ kalshi_events' = LoadKalshiTable(kalshi_raw)
    /\ poly_events' = LoadPolyTable(poly_raw)
    /\ bpc' = "index"
    /\ UNCHANGED <<kalshi_raw, poly_raw, poly_person_idx, poly_no_person, poly_years,
                   k_i, pairs, notBlockVars>>

\* get_candidate_pairs: the inverted index and the years of the Polymarket
\* events.  The frames' index labels 0..n-1 are the positions 1..n here.
BuildIndex ==
    /\ bpc = "index"
    /\ poly_person_idx' =
          [p \in UNION {poly_events[i].persons : i \in DOMAIN poly_events} |->
              {i \in DOMAIN poly_events : p \in poly_events[i].persons}]
    /\ poly_no_person' = {i \in DOMAIN poly_events : poly_events[i].persons = {}}
    /\ poly_years' = [i \in DOMAIN poly_events |-> poly_events[i].years]
    /\ k_i' = 1
    /\ bpc' = "rows"
    /\ UNCHANGED <<kalshi_raw, poly_raw, kalshi_events, poly_events, pairs, notBlockVars>>

\* get_candidate_pairs: the loop body for one Kalshi event
BlockRow ==
    /\ bpc = "rows" /\ k_i <= Len(kalshi_events)
    /\ LET krow == kalshi_events[k_i]
           cands == PersonCandidates(krow.persons, poly_person_idx, poly_no_person,
                                     DOMAIN poly_events)
           final == {pi \in cands : DateKeeps(krow.years, poly_years[pi])}
       IN  \E order \in Orderings(final) :
              pairs' = pairs \o [n \in DOMAIN order |-> <<k_i, order[n]>>]
    /\ k_i' = k_i + 1
    /\ UNCHANGED <<kalshi_raw, poly_raw, kalshi_events, poly_events, poly_person_idx,
                   poly_no_person, poly_years, bpc, notBlockVars>>

\* get_candidate_pairs returns `pairs`
ReturnPairs ==
    /\ bpc = "rows" /\ k_i > Len(kalshi_events)
    /\ bpc' = "done"
    /\ UNCHANGED <<kalshi_raw, poly_raw, kalshi_events, poly_events, poly_person_idx,
                   poly_no_person, poly_years, k_i, pairs, notBlockVars>>

BlockNext ==
    AddKalshiEvent \/ AddPolyEvent \/ LoadEvents \/ BuildIndex \/ BlockRow \/ ReturnPairs

SpecBlock == BlockInit /\ [][BlockNext]_vars

\* ------------------------------------------------------------------------
\* markets.py step 3: _extract_blank
\* ------------------------------------------------------------------------
\* "[blank]"
BLANK == <<"[", "b", "l", "a", "n", "k", "]">>
\* the value None
None == <<"None">>

\* s.startswith(p)
startswith(s, p) == Len(p) <= Len(s) /\ SubSeq(s, 1, Len(p)) = p
\* s.endswith(p)
endswith(s, p) == Len(p) <= Len(s) /\ SubSeq(s, Len(s) - Len(p) + 1, Len(s)) = p
\* the positions at which sub occurs in s
Occurrences(s, sub) ==
    {i \in 1..(Len(s) - Len(sub) + 1) : SubSeq(s, i, i + Len(sub) - 1) = sub}
\* sub in s
Contains(s, sub) == Occurrences(s, sub) # {}
\* the first occurrence of sub in s, where s.split(sub, 1) cuts
Find(s, sub) ==
    CHOOSE i \in Occurrences(s, sub) : \A j \in Occurrences(s, sub) : i <= j
\* s.rstrip()
rstrip(s) ==
    LET inked == {i \in DOMAIN s : ~IsSpace(s[i])}
    IN  IF inked = {} THEN <<>>
        ELSE SubSeq(s, 1, CHOOSE i \in inked : \A j \in inked : j <= i)

\* a prefix test that always passes
StartsWithAny(s, p) == TRUE
\* a suffix test that never passes
EndsWithNever(s, p) == FALSE

\* title.startswith(prefix) in _extract_blank
PrefixMatches(s, p) == startswith(s, p)
\* rest_s.endswith(suffix_s) in _extract_blank
SuffixMatches(s, p) == endswith(s, p)

\* _extract_blank(template, title)
extract_blank(template, title) ==
    IF ~Contains(template, BLANK) THEN None
    ELSE LET at == Find(template, BLANK)
             prefix == SubSeq(template, 1, at - 1)
             suffix == SubSeq(template, at + Len(BLANK), Len(template))
         IN  IF prefix # <<>> /\ ~PrefixMatches(title, prefix) THEN None
             ELSE LET rest == IF prefix # <<>>
                              THEN SubSeq(title, Len(prefix) + 1, Len(title))
                              ELSE title
                      suffix_s == strip(suffix)
                      rest_s == rstrip(rest)
                      blank == IF suffix_s # <<>> /\ SuffixMatches(rest_s, suffix_s)
                               THEN SubSeq(rest_s, 1, Len(rest_s) - Len(suffix_s))
                               ELSE rest
                  IN  IF strip(blank) = <<>> THEN None ELSE strip(blank)

\* the parts the templates and titles of the model are put together from:
\* prefixes "", "w " and "[blank] "
EbPrefixes == {<<>>, <<"w", " ">>, BLANK \o <<" ">>}
\* suffixes "", " z", "?" and " z "
EbSuffixes == {<<>>, <<" ", "z">>, <<"?">>, <<" ", "z", " ">>}
\* fills "", "x", "x y", " x", "x ", " ", "z" and "x z"
EbFills == {<<>>, <<"x">>, <<"x", " ", "y">>, <<" ", "x">>, <<"x", " ">>, <<" ">>,
            <<"z">>, <<"x", " ", "z">>}
\* a template without the wildcard: "w z"
EbPlain == <<"w", " ", "z">>
EbTemplates == {p \o BLANK \o s : p \in EbPrefixes, s \in EbSuffixes} \cup {EbPlain}
EbTitles == {p \o x \o s : p \in EbPrefixes, x \in EbFills, s \in EbSuffixes}

BlankInit ==
    /\ eb_template \in EbTemplates
    /\ eb_title \in EbTitles
    /\ eb_blank = <<>>
    /\ eb_pc = "call"
    /\ MatchIdle /\ LoadIdle /\ BlockIdle /\ PairIdle /\ MainIdle /\ PureIdle /\ RetryIdle

\* the call _extract_blank(template, title)
ExtractBlank ==
    /\ eb_pc = "call"
    /\ eb_blank' = extract_blank(eb_template, eb_title)
    /\ eb_pc' = "done"
    /\ UNCHANGED <<eb_template, eb_title, notBlankVars>>

BlankNext == ExtractBlank

SpecBlank == BlankInit /\ [][BlankNext]_vars

\* ------------------------------------------------------------------------
\* rapidfuzz: fuzz.token_sort_ratio
\* ------------------------------------------------------------------------
\* the printable characters in code point order (without the double quote,
\* the backslash and the backtick, which no text of the model has)
ASCII ==
    <<" ","!","#","$","%","&","'","(",")","*","+",",","-",".","/",
      "0","1","2","3","4","5","6","7","8","9",":",";","<","=",">","?","@",
      "A","B","C","D","E","F","G","H","I","J","K","L","M",
      "N","O","P","Q","R","S","T","U","V","W","X","Y","Z","[","]","^","_",
      "a","b","c","d","e","f","g","h","i","j","k","l","m",
      "n","o","p","q","r","s","t","u","v","w","x","y","z","{","|","}","~">>
Ord(c) == CHOOSE i \in DOMAIN ASCII : ASCII[i] = c

\* s < t for strings
StrLess(s, t) ==
    \E i \in 1..(Len(s) + 1) :
        /\ i <= Len(t)
        /\ \A j \in 1..(i - 1) : s[j] = t[j]
        /\ i > Len(s) \/ Ord(s[i]) < Ord(t[i])

RECURSIVE SortedTokens(_)
\* sorted(tokens)
SortedTokens(tokens) ==
    IF tokens = <<>> THEN <<>>
    ELSE LET i == CHOOSE m \in DOMAIN tokens :
                      \A n \in DOMAIN tokens : ~StrLess(tokens[n], tokens[m])
         IN  <<tokens[i]>> \o SortedTokens(Remove(tokens, i))

RECURSIVE JoinSpace(_)
\* " ".join(tokens)
JoinSpace(tokens) ==
    IF tokens = <<>> THEN <<>>
    ELSE IF Len(tokens) = 1 THEN tokens[1]
    ELSE tokens[1] \o <<" ">> \o JoinSpace(Tail(tokens))

Max2(a, b) == IF a >= b THEN a ELSE b

RECURSIVE LcsRow(_, _, _, _, _)
\* one row of the longest-common-subsequence table.  prev is the row above
\* and cur the row so far, both starting with column 0
LcsRow(c, t, prev, j, cur) ==
    IF j > Len(t) THEN cur
    ELSE LcsRow(c, t, prev, j + 1,
                Append(cur, IF c = t[j] THEN prev[j] + 1 ELSE Max2(prev[j + 1], cur[j])))

RECURSIVE LcsRows(_, _, _, _)
\* the table row by row; each row is complete before the next is begun
LcsRows(s, t, i, prev) ==
    IF i > Len(s) THEN prev
    ELSE LET row == LcsRow(s[i], t, prev, 1, <<0>>)
         IN  IF Len(row) = Len(t) + 1 THEN LcsRows(s, t, i + 1, row) ELSE <<>>

\* the length of a longest common subsequence of s and t
Lcs(s, t) == LcsRows(s, t, 1, [j \in 1..(Len(t) + 1) |-> 0])[Len(t) + 1]

\* fuzz.ratio(s, t): 100 * (1 - indel distance / (len(s) + len(t))), which is
\* 200 * lcs / (len(s) + len(t)).  A score is kept as the exact fraction
\* num / den; None scores 0 and two empty strings score 100.
ratio(s, t) ==
    IF s = None \/ t = None THEN [num |-> 0, den |-> 1]
    ELSE IF Len(s) + Len(t) = 0 THEN [num |-> 100, den |-> 1]
    ELSE [num |-> 200 * Lcs(s, t), den |-> Len(s) + Len(t)]

\* fuzz.token_sort_ratio(s, t): the ratio of the strings with their words sorted
token_sort_ratio(s, t) ==
    IF s = None \/ t = None THEN [num |-> 0, den |-> 1]
    ELSE ratio(JoinSpace(SortedTokens(split(s))), JoinSpace(SortedTokens(split(t))))

\* score >= threshold
AtLeast(score, th) == score.num >= th * score.den
\* round(score, 2), in units of 1e-2
Round2(score) == (200 * score.num + score.den) \div (2 * score.den)

\* ------------------------------------------------------------------------
\* markets.py step 3: match_markets_in_pair
\* ------------------------------------------------------------------------
BLANK_MATCH_THRESHOLD == 85
TITLE_MATCH_THRESHOLD == 90

\* "will [blank] win"
KTemplateBlank ==
    <<"w","i","l","l"," ","[","b","l","a","n","k","]"," ","w","i","n">>

\* "[blank] wins"
PTemplateBlank ==
    <<"[","b","l","a","n","k","]"," ","w","i","n","s">>

\* "will joe biden win"
KTemplatePlain ==
    <<"w","i","l","l"," ","j","o","e"," ","b","i","d","e","n"," ","w","i","n">>

\* "joe biden wins"
PTemplatePlain ==
    <<"j","o","e"," ","b","i","d","e","n"," ","w","i","n","s">>

\* "will joe biden win"
KTitleBiden ==
    <<"w","i","l","l"," ","j","o","e"," ","b","i","d","e","n"," ","w","i","n">>

\* "will robert f kennedy jr win"
KTitleKennedy ==
    <<"w","i","l","l"," ","r","o","b","e","r","t"," ","f"," ","k","e","n","n","e","d","y"," ","j",
      "r"," ","w","i","n">>

\* "joe biden to win"
KTitleToWin ==
    <<"j","o","e"," ","b","i","d","e","n"," ","t","o"," ","w","i","n">>

\* "joe biden"
KTitleBare ==
    <<"j","o","e"," ","b","i","d","e","n">>

\* "joseph biden wins"
PTitleJoseph ==
    <<"j","o","s","e","p","h"," ","b","i","d","e","n"," ","w","i","n","s">>

\* "robert kennedy junior wins"
PTitleKennedy ==
    <<"r","o","b","e","r","t"," ","k","e","n","n","e","d","y"," ","j","u","n","i","o","r"," ","w",
      "i","n","s">>

\* "joe r biden wins"
PTitleJoeR ==
    <<"j","o","e"," ","r"," ","b","i","d","e","n"," ","w","i","n","s">>

\* "joe r biden"
PTitleBare ==
    <<"j","o","e"," ","r"," ","b","i","d","e","n">>

\* the contract titles of the model, per platform
KTitles == <<KTitleBiden, KTitleKennedy, KTitleToWin, KTitleBare>>
PTitles == <<PTitleJoseph, PTitleKennedy, PTitleJoeR, PTitleBare>>
\* at most this many contracts in an event
MaxMarkets == 2
\* the tickers of the contracts of the two events
PairKTickers == <<"KM1", "KM2", "KM3">>
PairPTickers == <<"PM1", "PM2", "PM3">>

\* the rows of one event in a clean CSV: contracts with distinct titles, the
\* tickers in ticker order, every row with the event's template
MarketRows(tickers, titles, template) ==
    UNION {{[i \in 1..n |-> [ticker |-> tickers[i], title |-> titles[f[i]],
                             event_title |-> template,
                             result |-> IF i = 1 THEN "yes" ELSE "no"]] :
               f \in {g \in [1..n -> DOMAIN titles] :
                          \A a, b \in 1..n : a # b => g[a] # g[b]}} :
           n \in 1..MaxMarkets}

\* str(markets.iloc[0].get("event_title", ""))
TemplateOf(markets) == markets[1].event_title

\* blank mode as soon as one template has the wildcard
UseBlankEither(k_template, p_template) ==
    Contains(k_template, BLANK) \/ Contains(p_template, BLANK)

\* "[blank]" in k_template and "[blank]" in p_template
UseBlank(k_template, p_template) ==
    Contains(k_template, BLANK) /\ Contains(p_template, BLANK)

\* the thresholds of the two modes exchanged
ThresholdSwapped(ub) == IF ub THEN TITLE_MATCH_THRESHOLD ELSE BLANK_MATCH_THRESHOLD

\* BLANK_MATCH_THRESHOLD if use_blank else TITLE_MATCH_THRESHOLD
Threshold(ub) == IF ub THEN BLANK_MATCH_THRESHOLD ELSE TITLE_MATCH_THRESHOLD

\* a contract whose blank cannot be extracted keeps its title as its blank
ItemsTitleFallback(template, markets, ub) ==
    [i \in DOMAIN markets |->
        [ticker |-> markets[i].ticker, title |-> markets[i].title,
         result |-> markets[i].result,
         blank |-> IF ub /\ extract_blank(template, markets[i].title) # None
                   THEN extract_blank(template, markets[i].title)
                   ELSE IF ub THEN markets[i].title ELSE None]]

\* k_items / p_items: the contracts with their pre-extracted blanks
Items(template, markets, ub) ==
    [i \in DOMAIN markets |->
        [ticker |-> markets[i].ticker, title |-> markets[i].title,
         result |-> markets[i].result,
         blank |-> IF ub THEN extract_blank(template, markets[i].title) ELSE None]]

\* blank or ""
OrEmpty(blank) == IF blank = None THEN <<>> ELSE blank

\* the strings the contracts of the model can be compared by: their titles
\* and the blanks of their titles under the templates with the wildcard
ScoredK ==
    Range(KTitles) \cup {extract_blank(KTemplateBlank, KTitles[i]) : i \in DOMAIN KTitles}
ScoredP ==
    Range(PTitles) \cup {extract_blank(PTemplateBlank, PTitles[i]) : i \in DOMAIN PTitles}
\* fuzz.token_sort_ratio over these strings, evaluated once
TokenSortRatios == [s \in ScoredK, t \in ScoredP |-> token_sort_ratio(s, t)]

\* the pairs the loop scores: in blank mode those with a blank on both sides
Comparable(ki, pi, ub) == ub => (ki.blank # None /\ pi.blank # None)

\* the score of one pair of contracts under the active mode
PairScore(ki, pi, ub) ==
    IF ub THEN TokenSortRatios[ki.blank, pi.blank]
    ELSE TokenSortRatios[ki.title, pi.title]

\* the nested loop over k_items and p_items: the candidates, in loop order
Candidates(k_event, p_event, event_score, kis, pis, ub, th) ==
    LET KOf(m) == kis[((m - 1) \div Len(pis)) + 1]
        POf(m) == pis[((m - 1) % Len(pis)) + 1]
        RECURSIVE Loop(_)
        Loop(m) ==
            IF m > Len(kis) * Len(pis) THEN <<>>
            ELSE LET ki == KOf(m)
                     pi == POf(m)
                     score == PairScore(ki, pi, ub)
                 IN  (IF Comparable(ki, pi, ub) /\ AtLeast(score, th)
                      THEN <<[kalshi_event |-> k_event, poly_event |-> p_event,
                              event_score |-> event_score,
                              kalshi_ticker |-> ki.ticker, poly_ticker |-> pi.ticker,
                              kalshi_title |-> ki.title, poly_title |-> pi.title,
                              kalshi_blank |-> OrEmpty(ki.blank),
                              poly_blank |-> OrEmpty(pi.blank),
                              kalshi_result |-> ki.result, poly_result |-> pi.result,
                              market_score |-> Round2(score)]>>
                      ELSE <<>>) \o Loop(m + 1)
    IN  Loop(1)

\* match_markets_in_pair(k_event, p_event, event_score, k_markets, p_markets)
match_markets_in_pair(k_event, p_event, event_score, kms, pms) ==
    LET ub == UseBlank(TemplateOf(kms), TemplateOf(pms))
    IN  MarketSurvivors(
            Candidates(k_event, p_event, event_score,
                       Items(TemplateOf(kms), kms, ub), Items(TemplateOf(pms), pms, ub),
                       ub, Threshold(ub)))

\* ------------------------------------------------------------------------
\* The mutual-best specification: build an input table, run the filter
\* ------------------------------------------------------------------------
Pos(seq, x) == CHOOSE i \in DOMAIN seq : seq[i] = x
\* position of a market pair in the nested loop over k_items and p_items
LoopPos(c) == (Pos(KTickers, c.kalshi_ticker) - 1) * Len(PTickers) + Pos(PTickers, c.poly_ticker)

MatchInit ==
    /\ level \in {"event", "market"}
    /\ df = <<>>
    /\ candidates = <<>>
    /\ result = <<>>
    /\ mpc = "build"
    /\ LoadIdle /\ BlockIdle /\ BlankIdle /\ PairIdle /\ MainIdle /\ PureIdle /\ RetryIdle

\* one more row of the consolidated table: one row per unique pair, rows in
\* descending score order as load_event_matches leaves them
AddEventRow ==
    /\ level = "event" /\ mpc = "build" /\ Len(df) < MaxRows
    /\ \E k \in KEvents, p \in PEvents, s \in EventScores :
          /\ \A i \in DOMAIN df : PairOf(df[i]) # <<k, p>>
          /\ df # <<>> => s <= df[Len(df)].score
          /\ df' = Append(df, [kalshi_event |-> k, poly_event |-> p, score |-> s])
    /\ UNCHANGED <<level, candidates, result, mpc, notMatchVars>>

\* one more above-threshold market pair, in the order of the nested loop
AddCandidate ==
    /\ level = "market" /\ mpc = "build" /\ Len(candidates) < MaxRows
    /\ \E k \in Range(KTickers), p \in Range(PTickers), s \in MarketScores :
          LET c == [kalshi_ticker |-> k, poly_ticker |-> p, market_score |-> s]
          IN  /\ candidates # <<>> => LoopPos(c) > LoopPos(candidates[Len(candidates)])
              /\ candidates' = Append(candidates, c)
    /\ UNCHANGED <<level, df, result, mpc, notMatchVars>>

\* mutual_best_match(df).  On an empty frame the mask is an empty Series of
\* dtype object, df[mask] selects no column, and sort_values("score") raises.
mutual_best_match ==
    /\ level = "event" /\ mpc = "build"
    /\ IF df = <<>>
       THEN /\ mpc' = "KeyError"
            /\ result' = <<>>
       ELSE /\ result' \in SortedDesc(EventSurvivors(df), "score")
            /\ mpc' = "done"
    /\ UNCHANGED <<level, df, candidates, notMatchVars>>

\* _market_mutual_best(candidates)
market_mutual_best ==
    /\ level = "market" /\ mpc = "build"
    /\ result' = MarketSurvivors(candidates)
    /\ mpc' = "done"
    /\ UNCHANGED <<level, df, candidates, notMatchVars>>

MatchNext == AddEventRow \/ AddCandidate \/ mutual_best_match \/ market_mutual_best

SpecMatch == MatchInit /\ [][MatchNext]_vars

\* ------------------------------------------------------------------------
\* The market-matching specification: one call of match_markets_in_pair
\* ------------------------------------------------------------------------
\* the event pair and its score, which match_markets_in_pair only copies
PairKEvent == "K1"
PairPEvent == "P1"
PairEventScore == 9200

PairInit ==
    /\ \E kt \in {KTemplateBlank, KTemplatePlain} :
          k_markets \in MarketRows(PairKTickers, KTitles, kt)
    /\ \E pt \in {PTemplateBlank, PTemplatePlain} :
          p_markets \in MarketRows(PairPTickers, PTitles, pt)
    /\ use_blank = FALSE /\ threshold = 0
    /\ k_items = <<>> /\ p_items = <<>>
    /\ pair_pc = "call"
    /\ level = "market" /\ df = <<>> /\ candidates = <<>> /\ result = <<>> /\ mpc = "idle"
    /\ LoadIdle /\ BlockIdle /\ BlankIdle /\ MainIdle /\ PureIdle /\ RetryIdle

\* the mode, the threshold and the pre-extracted blanks
PreExtract ==
    /\ pair_pc = "call"
    /\ LET ub == UseBlank(TemplateOf(k_markets), TemplateOf(p_markets))
       IN  /\ use_blank' = ub
           /\ threshold' = Threshold(ub)
           /\ k_items' = Items(TemplateOf(k_markets), k_markets, ub)
           /\ p_items' = Items(TemplateOf(p_markets), p_markets, ub)
    /\ pair_pc' = "items"
    /\ UNCHANGED <<k_markets, p_markets, matchVars, notPairVars>>

\* the scoring loop; its candidates go to _market_mutual_best
ScorePairs ==
    /\ pair_pc = "items"
    /\ candidates' = Candidates(PairKEvent, PairPEvent, PairEventScore,
                                k_items, p_items, use_blank, threshold)
    /\ mpc' = "build"
    /\ pair_pc' = "scored"
    /\ UNCHANGED <<k_markets, p_markets, use_blank, threshold, k_items, p_items,
                   level, df, result, notPairVars>>

PairNext == PreExtract \/ ScorePairs \/ market_mutual_best

SpecPair == PairInit /\ [][PairNext]_vars

\* ------------------------------------------------------------------------
\* process.py: generalize_strings
\* ------------------------------------------------------------------------
\* min(len(w) for w in word_lists)
MinLen(word_lists) ==
    CHOOSE n \in {Len(word_lists[i]) : i \in DOMAIN word_lists} :
        \A i \in DOMAIN word_lists : n <= Len(word_lists[i])

RECURSIVE PrefixScan(_, _, _)
\* the loop of _common_prefix_len at the word i (counted from 1)
PrefixScan(word_lists, i, min_len) ==
    IF i > min_len THEN min_len
    ELSE IF Cardinality({word_lists[n][i] : n \in DOMAIN word_lists}) # 1 THEN i - 1
    ELSE PrefixScan(word_lists, i + 1, min_len)

\* _common_prefix_len(word_lists)
common_prefix_len(word_lists) ==
    IF word_lists = <<>> THEN 0 ELSE PrefixScan(word_lists, 1, MinLen(word_lists))

RECURSIVE SuffixScan(_, _, _)
\* the loop of _common_suffix_len at the i-th word from the end
SuffixScan(word_lists, i, min_len) ==
    IF i > min_len THEN min_len
    ELSE IF Cardinality({word_lists[n][Len(word_lists[n]) - i + 1] :
                            n \in DOMAIN word_lists}) # 1 THEN i - 1
    ELSE SuffixScan(word_lists, i + 1, min_len)

\* a suffix length that stops where the common prefix ends
SuffixLenNoOverlap(word_lists) ==
    IF word_lists = <<>> THEN 0
    ELSE SuffixScan(word_lists, 1, MinLen(word_lists) - common_prefix_len(word_lists))

\* _common_suffix_len(word_lists)
common_suffix_len(word_lists) ==
    IF word_lists = <<>> THEN 0 ELSE SuffixScan(word_lists, 1, MinLen(word_lists))

\* a filter that keeps every string
KeepBlank(strs) == strs

\* a filter that keeps the first string only
KeepFirst(strs) == IF strs = <<>> THEN <<>> ELSE <<Head(strs)>>

\* [s for s in strings if s.strip()]
NonEmpty(strs) == SelectSeq(strs, LAMBDA x : strip(x) # <<>>)

\* generalize_strings(strings)
generalize_strings(strs) ==
    LET non_empty == NonEmpty(strs)
    IN  IF non_empty = <<>> THEN <<>>
        ELSE IF Len(non_empty) = 1 THEN non_empty[1]
        ELSE IF Cardinality(Range(non_empty)) = 1 THEN non_empty[1]
        ELSE LET word_lists == [i \in DOMAIN non_empty |-> split(non_empty[i])]
                 prefix_len == common_prefix_len(word_lists)
                 suffix_len == common_suffix_len(word_lists)
                 first == word_lists[1]
                 prefix_words == SubSeq(first, 1, prefix_len)
                 suffix_words == IF suffix_len > 0
                                 THEN SubSeq(first, Len(first) - suffix_len + 1, Len(first))
                                 ELSE <<>>
                 parts == (IF prefix_words # <<>> THEN <<JoinSpace(prefix_words)>> ELSE <<>>)
                          \o <<BLANK>>
                          \o (IF suffix_words # <<>> THEN <<JoinSpace(suffix_words)>> ELSE <<>>)
             IN  JoinSpace(parts)

\* the strings the lists of the model are made of: "", " ", "x", "y z",
\* "a b", "a  b", " a b", "a c", "c b", "a c b", "a b a b", "a a" and
\* "a a a"
GenPool ==
    {<<>>, <<" ">>, <<"x">>, <<"y", " ", "z">>, <<"a", " ", "b">>,
     <<"a", " ", " ", "b">>, <<" ", "a", " ", "b">>, <<"a", " ", "c">>,
     <<"c", " ", "b">>, <<"a", " ", "c", " ", "b">>,
     <<"a", " ", "b", " ", "a", " ", "b">>, <<"a", " ", "a">>,
     <<"a", " ", "a", " ", "a">>}
\* the longest list passed in
MaxStrings == 3

GenInit ==
    /\ strings \in UNION {[1..n -> GenPool] : n \in 0..MaxStrings}
    /\ generalized = <<>>
    /\ gen_pc = "call"
    /\ ep_title = <<>> /\ ep_persons = {} /\ ep_pc = "idle"
    /\ MatchIdle /\ LoadIdle /\ BlockIdle /\ BlankIdle /\ PairIdle /\ MainIdle /\ RetryIdle

\* the call generalize_strings(strings)
Generalize ==
    /\ gen_pc = "call"
    /\ generalized' = generalize_strings(strings)
    /\ gen_pc' = "done"
    /\ UNCHANGED <<strings, ep_title, ep_persons, ep_pc, notPureVars>>

\* the generalisation is used as the template of its group: the call
\* _extract_blank(k_template, r["title"]) for one title of the group
ExtractFromGroup ==
    /\ gen_pc = "done" /\ Contains(generalized, BLANK)
    /\ \E i \in DOMAIN strings :
          /\ eb_template' = generalized
          /\ eb_title' = strings[i]
          /\ eb_blank' = extract_blank(generalized, strings[i])
    /\ eb_pc' = "done"
    /\ gen_pc' = "extracted"
    /\ UNCHANGED <<strings, generalized, ep_title, ep_persons, ep_pc,
                   matchVars, loadVars, blockVars, pairVars, mainVars, retryVars>>

GenNext == Generalize \/ ExtractFromGroup

SpecGeneralize == GenInit /\ [][GenNext]_vars

\* ------------------------------------------------------------------------
\* utils.py: extract_persons called on its own
\* ------------------------------------------------------------------------
\* the tokens the titles of the model are made of: Will, win, Trump, Xi,
\* Ohio, 'Trump', Trump's and Ocasio-Cortez,
PersonTokens ==
    {<<"W","i","l","l">>, <<"w","i","n">>, <<"T","r","u","m","p">>, <<"X","i">>,
     <<"O","h","i","o">>, <<"'","T","r","u","m","p","'">>,
     <<"T","r","u","m","p","'","s">>,
     <<"O","c","a","s","i","o","-","C","o","r","t","e","z",",">>}
\* the most tokens in a title
MaxTokens == 3
PersonTitles ==
    {JoinSpace(ws) : ws \in UNION {[1..n -> PersonTokens] : n \in 1..MaxTokens}}

PersonsInit ==
    /\ ep_title \in PersonTitles
    /\ ep_persons = {}
    /\ ep_pc = "call"
    /\ strings = <<>> /\ generalized = <<>> /\ gen_pc = "idle"
    /\ MatchIdle /\ LoadIdle /\ BlockIdle /\ BlankIdle /\ PairIdle /\ MainIdle /\ RetryIdle

\* the call extract_persons(original_title)
ExtractPersons ==
    /\ ep_pc = "call"
    /\ ep_persons' = extract_persons(ep_title)
    /\ ep_pc' = "done"
    /\ UNCHANGED <<ep_title, strings, generalized, gen_pc, notPureVars>>

PersonsNext == ExtractPersons

SpecPersons == PersonsInit /\ [][PersonsNext]_vars

\* ------------------------------------------------------------------------
\* retrieve.py: request_with_retries
\* ------------------------------------------------------------------------
MAX_RETRIES == 5
\* the status codes of the model: success, a redirect that was not followed,
\* rate limiting, a client error and a server error
Statuses == {200, 304, 429, 404, 503}
\* one answer more than the loop can ask for
ServerScripts == [1..(MAX_RETRIES + 1) -> Statuses]

\* for attempt in range(1, MAX_RETRIES + 1)
AttemptsLeft(attempt) == attempt <= MAX_RETRIES

\* a wait that grows by two seconds
WaitLinear(attempt) == 2 * attempt
\* wait = 2 ** attempt
Wait(attempt) == 2 ^ attempt

\* response.status_code == 429
RateLimited(status) == status = 429

\* response.raise_for_status() raises HTTPError for 4xx and 5xx
RaisesForStatus(status) == status >= 400 /\ status < 600

\* the answer to the n-th request; the last of the script again after it
AnswerTo(n) == IF n <= Len(rq_server) THEN rq_server[n] ELSE rq_server[Len(rq_server)]

RetryInit ==
    /\ rq_server \in ServerScripts
    /\ rq_attempt = 1 /\ rq_sent = 0 /\ rq_response = 0
    /\ rq_slept = <<>> /\ rq_result = 0
    /\ rq_pc = "get"
    /\ MatchIdle /\ LoadIdle /\ BlockIdle /\ BlankIdle /\ PairIdle /\ MainIdle /\ PureIdle

\* response = requests.get(url, params=params)
SendRequest ==
    /\ rq_pc = "get" /\ AttemptsLeft(rq_attempt)
    /\ rq_response' = AnswerTo(rq_sent + 1)
    /\ rq_sent' = rq_sent + 1
    /\ rq_pc' = "check"
    /\ UNCHANGED <<rq_server, rq_attempt, rq_slept, rq_result, notRetryVars>>

\* a 429: sleep 2 ** attempt seconds and continue with the next attempt
SleepAndRetry ==
    /\ rq_pc = "check" /\ RateLimited(rq_response)
    /\ rq_slept' = Append(rq_slept, Wait(rq_attempt))
    /\ rq_attempt' = rq_attempt + 1
    /\ rq_pc' = "get"
    /\ UNCHANGED <<rq_server, rq_sent, rq_response, rq_result, notRetryVars>>

\* response.raise_for_status() raises
RaiseHTTPError ==
    /\ rq_pc = "check" /\ ~RateLimited(rq_response) /\ RaisesForStatus(rq_response)
    /\ rq_pc' = "HTTPError"
    /\ UNCHANGED <<rq_server, rq_attempt, rq_sent, rq_response, rq_slept, rq_result,
                   notRetryVars>>

\* return response.json()
ReturnJson ==
    /\ rq_pc = "check" /\ ~RateLimited(rq_response) /\ ~RaisesForStatus(rq_response)
    /\ rq_result' = rq_sent
    /\ rq_pc' = "returned"
    /\ UNCHANGED <<rq_server, rq_attempt, rq_sent, rq_response, rq_slept, notRetryVars>>

\* the loop ended: raise Exception("Max retries exceeded due to rate limiting")
RaiseMaxRetries ==
    /\ rq_pc = "get" /\ ~AttemptsLeft(rq_attempt)
    /\ rq_pc' = "MaxRetries"
    /\ UNCHANGED <<rq_server, rq_attempt, rq_sent, rq_response, rq_slept, rq_result,
                   notRetryVars>>

RetryNext ==
    \/ SendRequest \/ SleepAndRetry \/ RaiseHTTPError \/ ReturnJson \/ RaiseMaxRetries

\* the function is sequential code: a step that can be taken is taken, given
\* that requests.get and time.sleep return
SpecRetry == RetryInit /\ [][RetryNext]_vars /\ WF_vars(RetryNext)

\* ------------------------------------------------------------------------
\* The pipeline specification: main
\* ------------------------------------------------------------------------
\* kalshi_clean.csv: event K1 with the template "will [blank] win" and two
\* contracts, event K2 with one contract whose title is its event title
KCleanRows ==
    <<[event_ticker |-> "K1", ticker |-> "KM1", title |-> KTitleBiden,
       event_title |-> KTemplateBlank, result |-> "yes"],
      [event_ticker |-> "K1", ticker |-> "KM2", title |-> KTitleKennedy,
       event_title |-> KTemplateBlank, result |-> "no"],
      [event_ticker |-> "K2", ticker |-> "KM3", title |-> KTitleBare,
       event_title |-> KTitleBare, result |-> "yes"]>>
\* polymarket_clean.csv: event P1 with the template "[blank] wins" and three
\* contracts, two of them close to the same Kalshi contract; event P2 with
\* one contract
PCleanRows ==
    <<[event_ticker |-> "P1", ticker |-> "PM1", title |-> PTitleJoseph,
       event_title |-> PTemplateBlank, result |-> "yes"],
      [event_ticker |-> "P1", ticker |-> "PM2", title |-> PTitleKennedy,
       event_title |-> PTemplateBlank, result |-> "no"],
      [event_ticker |-> "P1", ticker |-> "PM4", title |-> PTitleJoeR,
       event_title |-> PTemplateBlank, result |-> "no"],
      [event_ticker |-> "P2", ticker |-> "PM3", title |-> PTitleBare,
       event_title |-> PTitleBare, result |-> "yes"]>>
\* what main may find in kalshi_clean.csv: all events, or K2 cleaned away
KCleanSnapshots ==
    {KCleanRows, SelectSeq(KCleanRows, LAMBDA r : r.event_ticker # "K2")}

\* clean[clean["event_ticker"] == event]
MarketsOf(clean, event) == SelectSeq(clean, LAMBDA r : r.event_ticker = event)

\* clean.drop_duplicates("event_ticker").set_index("event_ticker")["event_title"],
\* looked up by .map(): the event title of the event's first row, NaN without one
TitleOf(clean, event) ==
    IF MarketsOf(clean, event) = <<>> THEN NaN ELSE MarketsOf(clean, event)[1].event_title

\* event_df with the columns kalshi_title and poly_title
Enriched(frame, kc, pc) ==
    [i \in DOMAIN frame |->
        [kalshi_event |-> frame[i].kalshi_event, poly_event |-> frame[i].poly_event,
         score |-> frame[i].score,
         kalshi_title |-> TitleOf(kc, frame[i].kalshi_event),
         poly_title |-> TitleOf(pc, frame[i].poly_event)]]

MainInit ==
    /\ LoadStart
    /\ main_pc = "step1"
    /\ kclean = <<>> /\ pclean = <<>> /\ event_df = <<>> /\ e_i = 0
    /\ all_market_matches = <<>> /\ blank_events = 0 /\ direct_events = 0
    /\ matched_events_csv = Untouched /\ matched_markets_csv = Untouched
    /\ MatchIdle /\ BlockIdle /\ BlankIdle /\ PairIdle /\ PureIdle /\ RetryIdle

\* step 1 raised: nothing in main catches the exception
MainLoadRaised ==
    /\ main_pc = "step1" /\ lpc = "FileNotFoundError"
    /\ main_pc' = "FileNotFoundError"
    /\ UNCHANGED <<kclean, pclean, event_df, e_i, all_market_matches, blank_events,
                   direct_events, matched_events_csv, matched_markets_csv,
                   loadVars, notMainVars>>

\* step 2, mutual_best_match(event_df), then the clean CSVs are read and the
\* event titles added.  mutual_best_match raises KeyError on an empty frame.
MainMutualBest ==
    /\ main_pc = "step1" /\ lpc = "done"
    /\ IF best = <<>>
       THEN /\ main_pc' = "KeyError"
            /\ UNCHANGED <<kclean, pclean, event_df, e_i>>
       ELSE /\ kclean' \in KCleanSnapshots
            /\ pclean' = PCleanRows
            /\ \E sorted \in SortedDesc(EventSurvivors(best), "score") :
                  event_df' = Enriched(sorted, kclean', pclean')
            /\ e_i' = 1
            /\ main_pc' = "step3"
    /\ UNCHANGED <<all_market_matches, blank_events, direct_events,
                   matched_events_csv, matched_markets_csv, loadVars, notMainVars>>

\* step 3, one iteration of the loop over event_df
MainMatchEventPair ==
    /\ main_pc = "step3" /\ e_i <= Len(event_df)
    /\ LET erow == event_df[e_i]
           k_mkts == MarketsOf(kclean, erow.kalshi_event)
           p_mkts == MarketsOf(pclean, erow.poly_event)
       IN  IF k_mkts = <<>> \/ p_mkts = <<>>
           THEN UNCHANGED <<all_market_matches, blank_events, direct_events>>
           ELSE /\ all_market_matches' = all_market_matches \o
                      match_markets_in_pair(erow.kalshi_event, erow.poly_event,
                                            erow.score, k_mkts, p_mkts)
                /\ IF UseBlank(TemplateOf(k_mkts), TemplateOf(p_mkts))
                   THEN blank_events' = blank_events + 1 /\ UNCHANGED direct_events
                   ELSE direct_events' = direct_events + 1 /\ UNCHANGED blank_events
    /\ e_i' = e_i + 1
    /\ UNCHANGED <<main_pc, kclean, pclean, event_df, matched_events_csv,
                   matched_markets_csv, loadVars, notMainVars>>

\* a save that does not wait for the loop
SaveAnytime(i, frame) == TRUE

\* the loop over event_df has ended: every event pair was handed to
\* match_markets_in_pair or skipped
SaveReady(i, frame) == i > Len(frame)

\* the results are saved: matched_events.csv always, matched_markets.csv
\* only if there is a market pair
MainSave ==
    /\ main_pc = "step3" /\ SaveReady(e_i, event_df)
    /\ matched_events_csv' = [state |-> "written", rows |-> event_df]
    /\ IF all_market_matches # <<>>
       THEN \E mdf \in SortedDesc(all_market_matches, "market_score") :
               matched_markets_csv' = [state |-> "written", rows |-> mdf]
       ELSE UNCHANGED matched_markets_csv
    /\ main_pc' = "done"
    /\ UNCHANGED <<kclean, pclean, event_df, e_i, all_market_matches, blank_events,
                   direct_events, loadVars, notMainVars>>

MainNext ==
    \/ AddFileRow \/ StartLoad \/ SkipFile \/ ReadFile \/ RaiseNoFiles \/ Consolidate
    \/ MainLoadRaised \/ MainMutualBest \/ MainMatchEventPair \/ MainSave

SpecMain == MainInit /\ [][MainNext]_vars

\* ------------------------------------------------------------------------
\* The pipeline specification over several runs of main
\* ------------------------------------------------------------------------
\* the scores a pair may have in a run; 0 stands for a pair no scorer kept
RunScores(pr) == IF pr = <<"K2", "P1">> THEN {0, 7000, 9200} ELSE {0, 9200}

\* the tables load_event_matches may return in a run: at least one row, in
\* an order a descending sort may leave
RunTables ==
    UNION {{f \in Orderings({[kalshi_event |-> pr[1], poly_event |-> pr[2], score |-> sc[pr]] :
                                pr \in {q \in LoadPairs : sc[q] # 0}}) :
               \A i, j \in DOMAIN f : i < j => f[i].score >= f[j].score} :
           sc \in {f \in [LoadPairs -> {0, 7000, 9200}] : \A pr \in LoadPairs : f[pr] \in RunScores(pr)}} \ {<<>>}

RECURSIVE MarketLoop(_, _, _, _)
\* the loop of step 3 from the row i of event_df on: the market pairs
\* collected and the two counters
MarketLoop(frame, kc, pc, i) ==
    IF i > Len(frame) THEN [matches |-> <<>>, blank |-> 0, direct |-> 0]
    ELSE LET rest == MarketLoop(frame, kc, pc, i + 1)
             k_mkts == MarketsOf(kc, frame[i].kalshi_event)
             p_mkts == MarketsOf(pc, frame[i].poly_event)
         IN  IF k_mkts = <<>> \/ p_mkts = <<>> THEN rest
             ELSE LET ub == UseBlank(TemplateOf(k_mkts), TemplateOf(p_mkts))
                  IN  [matches |-> match_markets_in_pair(frame[i].kalshi_event,
                                       frame[i].poly_event, frame[i].score, k_mkts, p_mkts)
                                   \o rest.matches,
                       blank |-> rest.blank + (IF ub THEN 1 ELSE 0),
                       direct |-> rest.direct + (IF ub THEN 0 ELSE 1)]

RunsInit ==
    /\ LoadIdle /\ MainIdle
    /\ MatchIdle /\ BlockIdle /\ BlankIdle /\ PairIdle /\ PureIdle /\ RetryIdle

\* one whole run of main that raises nothing, on the inputs of the day; the
\* two files are what the run before left
RunMain ==
    /\ main_pc \in {"idle", "done"}
    /\ \E table \in RunTables, kc \in KCleanSnapshots :
          \E sorted \in SortedDesc(EventSurvivors(table), "score") :
             LET frame == Enriched(sorted, kc, PCleanRows)
                 loop == MarketLoop(frame, kc, PCleanRows, 1)
             IN  /\ best' = table /\ lpc' = "done"
                 /\ kclean' = kc /\ pclean' = PCleanRows
                 /\ event_df' = frame
                 /\ e_i' = Len(frame) + 1
                 /\ all_market_matches' = loop.matches
                 /\ blank_events' = loop.blank /\ direct_events' = loop.direct
                 /\ matched_events_csv' = [state |-> "written", rows |-> frame]
                 /\ IF loop.matches # <<>>
                    THEN \E mdf \in SortedDesc(loop.matches, "market_score") :
                            matched_markets_csv' = [state |-> "written", rows |-> mdf]
                    ELSE UNCHANGED matched_markets_csv
    /\ main_pc' = "done"
    /\ UNCHANGED <<files, file_i, frames, notMainVars>>

RunsNext == RunMain

SpecRuns == RunsInit /\ [][RunsNext]_vars

\* ------------------------------------------------------------------------
\* Properties of the mutual-best filter
\* ------------------------------------------------------------------------
MatchDone == mpc = "done"
\* the table the filter ran on, with the names of its key and score columns
Frame == IF level = "event" THEN df ELSE candidates
ColA == IF level = "event" THEN "kalshi_event" ELSE "kalshi_ticker"
ColB == IF level = "event" THEN "poly_event" ELSE "poly_ticker"
ColS == IF level = "event" THEN "score" ELSE "market_score"

\* row i is the one picked for its key in column `by`: no row of the same
\* group scores higher, and none that scores the same comes before it
IsBestFor(frame, i, by, val) ==
    \A j \in DOMAIN frame :
        (j # i /\ frame[j][by] = frame[i][by]) =>
            \/ frame[j][val] < frame[i][val]
            \/ (frame[j][val] = frame[i][val] /\ i < j)

\* the survivor set of a run of the filter of the current level on `frame`
SurvivorSet(frame) ==
    IF level = "event" THEN Range(EventSurvivors(frame)) ELSE Range(MarketSurvivors(frame))

\* C1: the output of mutual_best_match on a table with one row per pair holds
\* each kalshi_event in at most one row and each poly_event in at most one row.
C1_PartialMatching ==
    (level = "event" /\ MatchDone) =>
        \A i, j \in DOMAIN result :
            i # j => /\ result[i].kalshi_event # result[j].kalshi_event
                     /\ result[i].poly_event # result[j].poly_event

\* two pairs survive out of a table in which every event has two candidates
C1_Witness ==
    /\ level = "event" /\ MatchDone
    /\ Len(result) = 2 /\ Len(df) = 4
    /\ \A i \in DOMAIN df : \E j \in DOMAIN df : j # i /\ df[j].poly_event = df[i].poly_event

\* C2: at both levels a pair is kept if and only if it is the row picked as
\* highest-scoring for its A key and the row picked as highest-scoring for its
\* B key; two diagonal pairs scoring 100 with lower cross scores both survive.
C2_KeptIffBestForBoth ==
    MatchDone =>
        /\ Range(result) =
              {Frame[i] : i \in {j \in DOMAIN Frame :
                                    /\ IsBestFor(Frame, j, ColA, ColS)
                                    /\ IsBestFor(Frame, j, ColB, ColS)}}
        /\ ( /\ level = "market" /\ Len(candidates) = 4
             /\ \A i \in DOMAIN candidates :
                   candidates[i].market_score = 10000
                       <=> LoopPos(candidates[i]) \in {1, 4} )
           => {TickersOf(result[i]) : i \in DOMAIN result}
                  = {<<"KM1", "PM1">>, <<"KM2", "PM2">>}

\* the diagonal scenario: four market candidates, the two diagonal ones at
\* 100, and the filter dropped the cross pairs, each the best of neither key
C2_DiagonalReached ==
    /\ level = "market" /\ MatchDone /\ Len(candidates) = 4
    /\ \A i \in DOMAIN candidates :
          candidates[i].market_score = 10000 <=> LoopPos(candidates[i]) \in {1, 4}
    /\ Len(result) = 2

\* a pair that is the best for one key only was dropped at the event level,
\* beside a pair that was kept
C2_Witness ==
    /\ level = "event" /\ MatchDone
    /\ \E i \in DOMAIN df :
          /\ IsBestFor(df, i, "kalshi_event", "score")
          /\ ~IsBestFor(df, i, "poly_event", "score")
          /\ df[i] \notin Range(result)
    /\ result # <<>>

\* C3 as stated: every other input pair with the same kalshi_event, and every
\* other with the same poly_event, scores strictly lower than a matched pair.
C3_StrictlyBest ==
    (level = "event" /\ MatchDone) =>
        \A r \in Range(result) : \A j \in DOMAIN df :
            ( df[j] # r /\ ( df[j].kalshi_event = r.kalshi_event
                             \/ df[j].poly_event = r.poly_event ) )
                => df[j].score < r.score

\* C3 amended: no other input pair with the same kalshi_event or the same
\* poly_event scores higher than a matched pair, and one that scores the same
\* comes after it in the table.
C3_BestFirstOnTies ==
    (level = "event" /\ MatchDone) =>
        \A r \in Range(result) : \A i, j \in DOMAIN df :
            ( df[i] = r /\ j # i /\ ( df[j].kalshi_event = r.kalshi_event
                                      \/ df[j].poly_event = r.poly_event ) )
                => \/ df[j].score < r.score
                   \/ (df[j].score = r.score /\ i < j)

\* a matched pair with a rival of the same kalshi_event and an equal score
C3_Witness ==
    /\ level = "event" /\ MatchDone
    /\ \E r \in Range(result) : \E j \in DOMAIN df :
          /\ df[j] # r
          /\ df[j].kalshi_event = r.kalshi_event
          /\ df[j].score = r.score

\* C4 as stated: the filter run without a pair that does not survive yields
\* exactly the same survivor set.
C4_DeleteLoserSame ==
    MatchDone =>
        \A i \in DOMAIN Frame :
            Frame[i] \notin Range(result)
                => SurvivorSet(Remove(Frame, i)) = Range(result)

\* C4 amended: the filter run without a pair that does not survive keeps every
\* survivor (it may add some), and yields exactly the same survivor set when
\* the deleted pair is the row picked for neither of its keys.
C4_DeleteLoserKeeps ==
    MatchDone =>
        \A i \in DOMAIN Frame :
            Frame[i] \notin Range(result)
                => /\ Range(result) \subseteq SurvivorSet(Remove(Frame, i))
                   /\ ( /\ ~IsBestFor(Frame, i, ColA, ColS)
                        /\ ~IsBestFor(Frame, i, ColB, ColS) )
                      => SurvivorSet(Remove(Frame, i)) = Range(result)

\* a loser whose deletion lets another pair survive, beside one whose
\* deletion changes nothing
C4_Witness ==
    /\ MatchDone /\ result # <<>>
    /\ \E i \in DOMAIN Frame :
          /\ Frame[i] \notin Range(result)
          /\ SurvivorSet(Remove(Frame, i)) # Range(result)
    /\ \E i \in DOMAIN Frame :
          /\ Frame[i] \notin Range(result)
          /\ ~IsBestFor(Frame, i, ColA, ColS)
          /\ ~IsBestFor(Frame, i, ColB, ColS)

\* ------------------------------------------------------------------------
\* Properties of the score consolidation
\* ------------------------------------------------------------------------
LoadDone == lpc = "done"

\* the normalised scores of all rows for `pair` in the scorer files present:
\* score/100 for the two fuzzy files, the score as it is for the semantic ones
ScoresOf(pair) ==
    UNION {{IF name \in {"fuzzy_title", "fuzzy_full"}
            THEN files[name].rows[i].score \div 100
            ELSE files[name].rows[i].score :
               i \in {j \in DOMAIN files[name].rows : PairOf(files[name].rows[j]) = pair}} :
           name \in {n \in Range(MATCH_FILES) : files[n].exists}}

MaxOf(S) == CHOOSE x \in S : \A y \in S : y <= x

HasRow(name, k, p, s) ==
    \E i \in DOMAIN files[name].rows :
        files[name].rows[i] = [kalshi_event |-> k, poly_event |-> p, score |-> s]

\* C9: every row returned by load_event_matches carries the maximum of the
\* normalised scores of its pair over all rows of all files present; fuzzy 92
\* and semantic 0.81 for one pair give 0.92.
C9_BestIsMaxNormalised ==
    LoadDone =>
        /\ \A i \in DOMAIN best :
              /\ ScoresOf(PairOf(best[i])) # {}
              /\ best[i].score = MaxOf(ScoresOf(PairOf(best[i])))
        /\ ( /\ HasRow("fuzzy_title", "K1", "P1", 920000)
             /\ HasRow("semantic_title", "K1", "P1", 8100) )
           => \E i \in DOMAIN best :
                 best[i] = [kalshi_event |-> "K1", poly_event |-> "P1", score |-> 9200]

\* the scenario of the claim: one pair scored 92 by a fuzzy scorer and 0.81 by
\* a semantic one, consolidated
C9_Witness ==
    /\ LoadDone
    /\ HasRow("fuzzy_title", "K1", "P1", 920000)
    /\ HasRow("semantic_title", "K1", "P1", 8100)
    /\ ScoresOf(<<"K1", "P1">>) = {9200, 8100}
    /\ \E i \in DOMAIN best : PairOf(best[i]) = <<"K1", "P1">>

\* C10: load_event_matches returns exactly one row for each pair whose best
\* normalised score is at least 0.70 (0.70 itself is kept) and no row for any
\* other pair.
C10_OneRowPerPairAtFloor ==
    LoadDone =>
        /\ {PairOf(best[i]) : i \in DOMAIN best}
              = {pair \in LoadPairs :
                    ScoresOf(pair) # {} /\ MaxOf(ScoresOf(pair)) >= 7000}
        /\ \A i, j \in DOMAIN best : i # j => PairOf(best[i]) # PairOf(best[j])

\* a pair with several rows whose best score is exactly 0.70 is kept, while
\* a pair whose best score is 0.65 is dropped
C10_Witness ==
    /\ LoadDone
    /\ \E pair \in LoadPairs :
          /\ ScoresOf(pair) # {} /\ MaxOf(ScoresOf(pair)) = 7000
          /\ Cardinality({n \in Range(MATCH_FILES) :
                            \E i \in DOMAIN files[n].rows :
                                PairOf(files[n].rows[i]) = pair}) >= 2
          /\ \E i \in DOMAIN best : PairOf(best[i]) = pair
    /\ \E pair \in LoadPairs :
          /\ ScoresOf(pair) = {6500}
          /\ \A i \in DOMAIN best : PairOf(best[i]) # pair

\* ------------------------------------------------------------------------
\* Properties of blocking
\* ------------------------------------------------------------------------
BlockDone == bpc = "done"
Emitted(ki, pi) == \E n \in DOMAIN pairs : pairs[n] = <<ki, pi>>
AllPairs == (DOMAIN kalshi_events) \X (DOMAIN poly_events)

\* the two events share a person, or neither has any
PersonRule(kp, pp) == (kp \cap pp # {}) \/ (kp = {} /\ pp = {})
\* one side has no year, or a year of one is within 1 of a year of the other
YearRule(ky, py) ==
    ky = {} \/ py = {} \/ \E a \in ky, b \in py : a - b \in {-1, 0, 1}

\* C5: get_candidate_pairs never emits a pair whose person sets are both
\* non-empty and disjoint, nor one where exactly one side has no persons.
C5_BlockedNeverEmitted ==
    \A n \in DOMAIN pairs :
        LET kp == kalshi_events[pairs[n][1]].persons
            pp == poly_events[pairs[n][2]].persons
        IN  /\ ~(kp # {} /\ pp # {} /\ kp \cap pp = {})
            /\ ~((kp = {}) # (pp = {}))

\* blocking ran over a Kalshi event with persons, a Polymarket event with
\* other persons and one with none, whose years would all have passed
C5_Witness ==
    /\ BlockDone
    /\ \E ki \in DOMAIN kalshi_events, pi, pj \in DOMAIN poly_events :
          /\ kalshi_events[ki].persons # {}
          /\ poly_events[pi].persons # {}
          /\ kalshi_events[ki].persons \cap poly_events[pi].persons = {}
          /\ poly_events[pj].persons = {}
          /\ YearRule(kalshi_events[ki].years, poly_events[pi].years)
          /\ YearRule(kalshi_events[ki].years, poly_events[pj].years)
          /\ ~Emitted(ki, pi) /\ ~Emitted(ki, pj)

\* C6: get_candidate_pairs emits, exactly once each, every pair of rows that
\* passes the person rule and the year rule, and nothing else; with no persons
\* and no years anywhere the output is the full cross product.
C6_CompleteNoDuplicates ==
    BlockDone =>
        /\ Range(pairs) =
              {kp \in AllPairs :
                  /\ PersonRule(kalshi_events[kp[1]].persons, poly_events[kp[2]].persons)
                  /\ YearRule(kalshi_events[kp[1]].years, poly_events[kp[2]].years)}
        /\ \A m, n \in DOMAIN pairs : m # n => pairs[m] # pairs[n]
        /\ ( /\ \A i \in DOMAIN kalshi_events :
                   kalshi_events[i].persons = {} /\ kalshi_events[i].years = {}
             /\ \A i \in DOMAIN poly_events :
                   poly_events[i].persons = {} /\ poly_events[i].years = {} )
           => /\ Range(pairs) = AllPairs
              /\ Len(pairs) = Len(kalshi_events) * Len(poly_events)

\* a Kalshi event with two persons met a Polymarket event found under both of
\* them and another found under one: two pairs, each emitted once
C6_Witness ==
    /\ BlockDone
    /\ Len(pairs) = 2
    /\ \E ki \in DOMAIN kalshi_events, pi \in DOMAIN poly_events :
          /\ Cardinality(kalshi_events[ki].persons \cap poly_events[pi].persons) = 2
          /\ Emitted(ki, pi)

\* the degraded case: no persons, no years, the whole cross product
C6_CrossProductReached ==
    /\ BlockDone
    /\ Len(kalshi_events) = 1 /\ Len(poly_events) = 2
    /\ \A i \in DOMAIN kalshi_events :
          kalshi_events[i].persons = {} /\ kalshi_events[i].years = {}
    /\ \A i \in DOMAIN poly_events :
          poly_events[i].persons = {} /\ poly_events[i].years = {}
    /\ Len(pairs) = 2

\* C7: a pair that passes the person rule is rejected if and only if both
\* events have years and no year of one is within 1 of a year of the other:
\* {2026} with {2025} passes, with {2024} is rejected, with {} passes.
C7_YearFilter ==
    BlockDone =>
        \A kp \in AllPairs :
            LET ky == kalshi_events[kp[1]].years
                py == poly_events[kp[2]].years
            IN  PersonRule(kalshi_events[kp[1]].persons, poly_events[kp[2]].persons) =>
                  /\ ~Emitted(kp[1], kp[2]) <=>
                        ( /\ ky # {} /\ py # {}
                          /\ \A a \in ky, b \in py : a - b >= 2 \/ b - a >= 2 )
                  /\ (ky = {2026} /\ py = {2025}) => Emitted(kp[1], kp[2])
                  /\ (ky = {2026} /\ py = {2024}) => ~Emitted(kp[1], kp[2])
                  /\ (ky = {2026} /\ py = {}) => Emitted(kp[1], kp[2])

\* one Kalshi event of 2026 beside two person-compatible Polymarket events,
\* the one of 2025 emitted and the one of 2024 rejected
C7_Witness ==
    /\ BlockDone
    /\ \E ki \in DOMAIN kalshi_events, pi, pj \in DOMAIN poly_events :
          /\ kalshi_events[ki].years = {2026}
          /\ poly_events[pi].years = {2025} /\ poly_events[pj].years = {2024}
          /\ PersonRule(kalshi_events[ki].persons, poly_events[pi].persons)
          /\ PersonRule(kalshi_events[ki].persons, poly_events[pj].persons)
          /\ Emitted(ki, pi) /\ ~Emitted(ki, pj)

\* a person-compatible pair with years on one side only is emitted
C7_NoYearsReached ==
    /\ BlockDone
    /\ \E ki \in DOMAIN kalshi_events, pi \in DOMAIN poly_events :
          /\ kalshi_events[ki].years = {2026} /\ poly_events[pi].years = {}
          /\ Emitted(ki, pi)

\* the name tokens of a title: the lowercased cleaned words of length 3 or
\* more that start with a capital and are not in the stop-list.  With
\* `anywhere` the first word counts like the others; without, it counts only
\* if the second word is capitalised and not in the stop-list.
NameTokens(title, anywhere) ==
    LET words == split(title)
        IsName(w) == /\ Len(w) >= 3 /\ IsUpper(w[1])
                     /\ lower(w) \notin NON_PERSON_WORDS
        Counts(i) ==
            /\ IsName(CleanWord(words[i]))
            /\ (i = 1 /\ ~anywhere) =>
                  /\ Len(words) >= 2
                  /\ CleanNext(words[2]) # <<>>
                  /\ IsUpper(CleanNext(words[2])[1])
                  /\ lower(CleanNext(words[2])) \notin NON_PERSON_WORDS
    IN  {lower(CleanWord(words[i])) : i \in {j \in DOMAIN words : Counts(j)}}
NamesOfList(titles, anywhere) ==
    UNION {NameTokens(titles[i], anywhere) : i \in DOMAIN titles}
\* over the pool of title lists, evaluated once
PoolNamesAnywhere ==
    <<NamesOfList(OrigTitleLists[1], TRUE), NamesOfList(OrigTitleLists[2], TRUE),
      NamesOfList(OrigTitleLists[3], TRUE), NamesOfList(OrigTitleLists[4], TRUE)>>
PoolNamesCounted ==
    <<NamesOfList(OrigTitleLists[1], FALSE), NamesOfList(OrigTitleLists[2], FALSE),
      NamesOfList(OrigTitleLists[3], FALSE), NamesOfList(OrigTitleLists[4], FALSE)>>

Trump == <<"t", "r", "u", "m", "p">>
\* the Kalshi event of the scenario has the two "Will Trump win ..." titles,
\* the Polymarket event the title "Trump wins Ohio 2028 election"
IsScenario(kp) ==
    /\ OrigTitleLists[kalshi_raw[kp[1]].orig_titles] = <<TitleTrumpOhio, TitleTrumpTexas>>
    /\ OrigTitleLists[poly_raw[kp[2]].orig_titles] = <<TitleTrumpWins>>
YearsPass(kp) == YearRule(kalshi_events[kp[1]].years, poly_events[kp[2]].years)

PresentFiles == {n \in Range(MATCH_FILES) : files[n].exists}
NoOutputWritten == matched_events_csv = Untouched /\ matched_markets_csv = Untouched

\* C11: with at least one scorer file present load_event_matches reads one
\* frame per present file, none for an absent one, and returns the
\* consolidation of the rows of exactly the present files; with none present
\* it raises FileNotFoundError and main stops with no output table written.
C11_MissingFilesSkipped ==
    /\ lpc = "done" =>
          /\ PresentFiles # {}
          /\ Len(frames) = Cardinality(PresentFiles)
          /\ {<<PairOf(best[i]), best[i].score>> : i \in DOMAIN best}
                = {<<pair, MaxOf(ScoresOf(pair))>> :
                      pair \in {q \in LoadPairs :
                                   ScoresOf(q) # {} /\ MaxOf(ScoresOf(q)) >= 7000}}
    /\ lpc = "FileNotFoundError" => PresentFiles = {}
    /\ PresentFiles = {} =>
          /\ lpc \in {"setup", "loop", "FileNotFoundError"}
          /\ frames = <<>>
          /\ main_pc \in {"step1", "FileNotFoundError"}
          /\ NoOutputWritten
    /\ main_pc = "FileNotFoundError" => PresentFiles = {} /\ NoOutputWritten

\* a run with two scorer files present, each with a pair of its own, and at
\* least one absent: the absent ones were skipped and the run was saved
C11_Witness ==
    /\ main_pc = "done"
    /\ Cardinality(PresentFiles) = 2
    /\ \E m, n \in PresentFiles :
          /\ m # n
          /\ \E i \in DOMAIN files[m].rows, j \in DOMAIN files[n].rows :
                PairOf(files[m].rows[i]) # PairOf(files[n].rows[j])
    /\ Len(best) = 2
    /\ matched_events_csv.state = "written"

\* no scorer file at all: main ended in FileNotFoundError
C11_AbortReached ==
    /\ main_pc = "FileNotFoundError" /\ PresentFiles = {} /\ NoOutputWritten

\* C12: an empty result is a normal outcome and never an exception: when the
\* consolidation returns no pair at or above the floor, and when market
\* matching finds no pair, main goes on to save its event table and ends.
C12_EmptyNeverRaises ==
    /\ (lpc = "done" /\ best = <<>>) => main_pc \in {"step1", "step3", "done"}
    /\ (main_pc = "done" /\ all_market_matches = <<>>) =>
          matched_events_csv.state = "written"

\* the consolidation kept no pair and main ended in KeyError, nothing written
C12_KeyErrorReached ==
    /\ lpc = "done" /\ best = <<>> /\ PresentFiles # {}
    /\ main_pc = "KeyError" /\ NoOutputWritten

\* market matching found no pair for a matched event pair and main ended
\* normally, with its event table written
C12_NoMarketPairReached ==
    /\ main_pc = "done" /\ event_df # <<>> /\ all_market_matches = <<>>
    /\ direct_events + blank_events > 0
    /\ matched_events_csv.state = "written"

\* ------------------------------------------------------------------------
\* Properties of market matching
\* ------------------------------------------------------------------------
\* both event templates of the call are the ones with the wildcard
BothWildcard ==
    /\ TemplateOf(k_markets) = KTemplateBlank
    /\ TemplateOf(p_markets) = PTemplateBlank
KBlankOf(t) == extract_blank(TemplateOf(k_markets), t)
PBlankOf(t) == extract_blank(TemplateOf(p_markets), t)
\* the strings the active mode compares for a pair of contract titles
ComparedScore(kt, pt) ==
    IF BothWildcard THEN token_sort_ratio(KBlankOf(kt), PBlankOf(pt))
    ELSE token_sort_ratio(kt, pt)
HasCandidate(kt, pt) ==
    \E n \in DOMAIN candidates :
        candidates[n].kalshi_title = kt /\ candidates[n].poly_title = pt
HasMarket(markets, t) == \E i \in DOMAIN markets : markets[i].title = t

\* C13: match_markets_in_pair compares blanks with threshold 85 exactly when
\* both templates contain the wildcard and titles with threshold 90 otherwise;
\* every candidate and every returned pair carries the score of the active
\* mode, at or above its threshold, and a pair at exactly the threshold is a
\* candidate.
C13_ModeAndThreshold ==
    /\ pair_pc \in {"items", "scored"} =>
          /\ use_blank = BothWildcard
          /\ threshold = IF BothWildcard THEN 85 ELSE 90
    /\ pair_pc = "scored" =>
          /\ \A n \in DOMAIN candidates :
                LET c == candidates[n]
                    score == ComparedScore(c.kalshi_title, c.poly_title)
                IN  /\ c.market_score = (200 * score.num + score.den) \div (2 * score.den)
                    /\ c.market_score >= IF BothWildcard THEN 8500 ELSE 9000
          /\ \A n \in DOMAIN result : \E m \in DOMAIN candidates : result[n] = candidates[m]
          /\ (BothWildcard /\ HasMarket(k_markets, KTitleKennedy)
                /\ HasMarket(p_markets, PTitleKennedy))
             => \E n \in DOMAIN candidates :
                   /\ candidates[n].kalshi_title = KTitleKennedy
                   /\ candidates[n].poly_title = PTitleKennedy
                   /\ candidates[n].market_score = 8500
          /\ (~BothWildcard /\ HasMarket(k_markets, KTitleBare)
                /\ HasMarket(p_markets, PTitleBare))
             => \E n \in DOMAIN candidates :
                   /\ candidates[n].kalshi_title = KTitleBare
                   /\ candidates[n].poly_title = PTitleBare
                   /\ candidates[n].market_score = 9000

\* blank mode returned two pairs, one of them at exactly 85
C13_Witness ==
    /\ mpc = "done" /\ use_blank /\ threshold = 85
    /\ Len(result) = 2
    /\ \E n \in DOMAIN result : result[n].market_score = 8500
    /\ \E n \in DOMAIN result : result[n].market_score > 8500 /\ result[n].market_score < 9000

\* only the Kalshi template has the wildcard: titles were compared, the pair
\* at exactly 90 was returned and a pair of titles scoring 87.5 was not
C13_OneSidedReached ==
    /\ mpc = "done" /\ ~use_blank /\ threshold = 90
    /\ TemplateOf(k_markets) = KTemplateBlank /\ TemplateOf(p_markets) = PTemplatePlain
    /\ HasMarket(k_markets, KTitleToWin) /\ HasMarket(p_markets, PTitleJoeR)
    /\ ~HasCandidate(KTitleToWin, PTitleJoeR)
    /\ \E n \in DOMAIN result : result[n].market_score = 9000

\* C14: in blank mode a contract whose blank extraction returned None is in no
\* candidate pair and in no returned pair; in direct mode every pair of
\* contracts whose titles score at least 90 is a candidate, whether or not a
\* blank could be extracted from them.
C14_NoFillExcluded ==
    pair_pc = "scored" =>
        /\ BothWildcard =>
              /\ \A n \in DOMAIN candidates :
                    /\ KBlankOf(candidates[n].kalshi_title) # None
                    /\ PBlankOf(candidates[n].poly_title) # None
              /\ \A n \in DOMAIN result :
                    /\ KBlankOf(result[n].kalshi_title) # None
                    /\ PBlankOf(result[n].poly_title) # None
        /\ ~BothWildcard =>
              \A i \in DOMAIN k_markets, j \in DOMAIN p_markets :
                  AtLeast(token_sort_ratio(k_markets[i].title, p_markets[j].title), 90)
                     => HasCandidate(k_markets[i].title, p_markets[j].title)

\* blank mode over a Kalshi contract whose title does not start with the
\* prefix, beside one that does and was matched; the title of the first would
\* have scored 90 against the blank of the Polymarket contract
C14_Witness ==
    /\ mpc = "done" /\ use_blank
    /\ HasMarket(k_markets, KTitleBare) /\ KBlankOf(KTitleBare) = None
    /\ HasMarket(p_markets, PTitleJoeR)
    /\ AtLeast(token_sort_ratio(KTitleBare, PBlankOf(PTitleJoeR)), 85)
    /\ \A n \in DOMAIN candidates : candidates[n].kalshi_title # KTitleBare
    /\ result # <<>>

\* direct mode returned a pair of contracts from neither of which a blank
\* could be extracted
C14_DirectKeepsReached ==
    /\ mpc = "done" /\ ~use_blank
    /\ \E n \in DOMAIN result :
          /\ KBlankOf(result[n].kalshi_title) = None
          /\ PBlankOf(result[n].poly_title) = None

\* C15: with tickers that are unique and belong to one event each, no
\* kalshi_ticker and no poly_ticker is in two rows of the market-pair table
\* main saves, over all matched event pairs.
C15_TickersUniqueOverall ==
    LET rows == matched_markets_csv.rows
    IN  /\ \A i, j \in DOMAIN rows :
              i # j => /\ rows[i].kalshi_ticker # rows[j].kalshi_ticker
                       /\ rows[i].poly_ticker # rows[j].poly_ticker
        /\ \A i, j \in DOMAIN all_market_matches :
              i # j => /\ all_market_matches[i].kalshi_ticker # all_market_matches[j].kalshi_ticker
                       /\ all_market_matches[i].poly_ticker # all_market_matches[j].poly_ticker

\* the saved table holds pairs of two event pairs, and a Kalshi contract of
\* the first had two Polymarket contracts above the threshold
C15_Witness ==
    /\ main_pc = "done" /\ matched_markets_csv.state = "written"
    /\ Len(event_df) = 2
    /\ \E i, j \in DOMAIN matched_markets_csv.rows :
          /\ matched_markets_csv.rows[i].kalshi_event = "K1"
          /\ matched_markets_csv.rows[i].kalshi_ticker = "KM1"
          /\ matched_markets_csv.rows[i].poly_ticker = "PM4"
          /\ matched_markets_csv.rows[j].kalshi_event = "K2"
    /\ AtLeast(token_sort_ratio(extract_blank(KTemplateBlank, KTitleBiden),
                                extract_blank(PTemplateBlank, PTitleJoseph)), 85)

\* ------------------------------------------------------------------------
\* Properties of _extract_blank
\* ------------------------------------------------------------------------
\* x without its leading and trailing spaces
Trimmed(x) ==
    LET ns == {i \in DOMAIN x : x[i] # " "}
    IN  IF ns = {} THEN <<>>
        ELSE SubSeq(x, CHOOSE i \in ns : \A j \in ns : i <= j,
                       CHOOSE i \in ns : \A j \in ns : j <= i)
WildcardAt(t, n) ==
    n + Len(BLANK) <= Len(t) /\ SubSeq(t, n + 1, n + Len(BLANK)) = BLANK
HasWildcard(t) == \E n \in 0..Len(t) : WildcardAt(t, n)
\* the length of the text before the first wildcard of t
FirstWildcard(t) ==
    IF HasWildcard(t)
    THEN CHOOSE n \in 0..Len(t) :
             WildcardAt(t, n) /\ \A m \in 0..(n - 1) : ~WildcardAt(t, m)
    ELSE Len(t)
PrefixOf(t) == SubSeq(t, 1, FirstWildcard(t))
SuffixOf(t) == SubSeq(t, FirstWildcard(t) + Len(BLANK) + 1, Len(t))
BeginsWith(t, pre) == Len(pre) <= Len(t) /\ SubSeq(t, 1, Len(pre)) = pre
FinishesWith(t, suf) ==
    Len(suf) <= Len(t) /\ SubSeq(t, Len(t) - Len(suf) + 1, Len(t)) = suf
\* the title after the prefix of the template
Remainder(template, title) ==
    SubSeq(title, Len(PrefixOf(template)) + 1, Len(title))
\* the suffix of the template is not blank and does not end the remainder
SuffixMismatch(template, title) ==
    /\ Trimmed(SuffixOf(template)) # <<>>
    /\ ~FinishesWith(Trimmed(Remainder(template, title)), Trimmed(SuffixOf(template)))
\* the text taken for the blank, before it is trimmed
Extracted(template, title) ==
    LET rest == Trimmed(Remainder(template, title))
        suf == Trimmed(SuffixOf(template))
    IN  IF suf # <<>> /\ FinishesWith(rest, suf)
        THEN SubSeq(rest, 1, Len(rest) - Len(suf))
        ELSE rest

\* C16 as stated: for T = prefix + "[blank]" + suffix and C = prefix + X +
\* suffix with X not empty, _extract_blank(T, C) is X.
C16_RoundTripAnyFill ==
    eb_pc = "done" =>
        \A p \in EbPrefixes, x \in EbFills \ {<<>>}, sf \in EbSuffixes :
            (eb_template = p \o BLANK \o sf /\ eb_title = p \o x \o sf) => eb_blank = x

\* C16, amended: when the prefix holds no wildcard, _extract_blank(T, C) is X
\* without its leading and trailing whitespace, which is X itself when it
\* has none, and None when X is whitespace only.
C16_RoundTripTrimmed ==
    eb_pc = "done" =>
        \A p \in EbPrefixes, x \in EbFills \ {<<>>}, sf \in EbSuffixes :
            (~HasWildcard(p) /\ eb_template = p \o BLANK \o sf /\ eb_title = p \o x \o sf)
               => /\ eb_blank = IF Trimmed(x) = <<>> THEN None ELSE Trimmed(x)
                  /\ Trimmed(x) = x => eb_blank = x

\* the fill " x" between "w " and " z" came back as "x"
C16_Witness ==
    /\ eb_pc = "done"
    /\ eb_template = <<"w", " ">> \o BLANK \o <<" ", "z">>
    /\ eb_title = <<"w", " ", " ", "x", " ", "z">>
    /\ eb_blank = <<"x">>

\* the fill "x y" between "w " and " z " came back unchanged
C16_ExactReached ==
    /\ eb_pc = "done"
    /\ eb_template = <<"w", " ">> \o BLANK \o <<" ", "z", " ">>
    /\ eb_title = <<"w", " ", "x", " ", "y", " ", "z", " ">>
    /\ eb_blank = <<"x", " ", "y">>

\* C17: _extract_blank returns None exactly when the template has no
\* wildcard, or its prefix is not empty and the title does not start with it,
\* or the extracted text is empty after trimming; it returns a string
\* otherwise, and on a suffix that does not end the remainder it returns the
\* whole trimmed remainder.
C17_NoFillExactly ==
    eb_pc = "done" =>
        /\ eb_blank = None <=>
              \/ ~HasWildcard(eb_template)
              \/ /\ PrefixOf(eb_template) # <<>>
                 /\ ~BeginsWith(eb_title, PrefixOf(eb_template))
              \/ Trimmed(Extracted(eb_template, eb_title)) = <<>>
        /\ eb_blank # None => eb_blank = Trimmed(Extracted(eb_template, eb_title))
        /\ (/\ HasWildcard(eb_template)
            /\ BeginsWith(eb_title, PrefixOf(eb_template))
            /\ SuffixMismatch(eb_template, eb_title)
            /\ Trimmed(Remainder(eb_template, eb_title)) # <<>>)
           => eb_blank = Trimmed(Remainder(eb_template, eb_title))

\* "w x z?" under "w [blank] z": the suffix does not end the remainder and
\* the whole of it came back
C17_Witness ==
    /\ eb_pc = "done"
    /\ eb_template = <<"w", " ">> \o BLANK \o <<" ", "z">>
    /\ eb_title = <<"w", " ", "x", " ", "z", "?">>
    /\ SuffixMismatch(eb_template, eb_title)
    /\ eb_blank = <<"x", " ", "z", "?">>

\* a title that does not start with the prefix gave None
C17_PrefixMismatchReached ==
    /\ eb_pc = "done" /\ HasWildcard(eb_template)
    /\ PrefixOf(eb_template) # <<>> /\ ~BeginsWith(eb_title, PrefixOf(eb_template))
    /\ eb_blank = None

\* a title with nothing but the prefix and the suffix gave None
C17_EmptyFillReached ==
    /\ eb_pc = "done" /\ HasWildcard(eb_template)
    /\ BeginsWith(eb_title, PrefixOf(eb_template))
    /\ Trimmed(Extracted(eb_template, eb_title)) = <<>>
    /\ eb_blank = None

\* ------------------------------------------------------------------------
\* Properties of generalize_strings
\* ------------------------------------------------------------------------
IsBlankString(x) == \A i \in DOMAIN x : x[i] = " "
\* the inputs that are not empty and not whitespace, in their order
NonBlankInputs == SelectSeq(strings, LAMBDA x : ~IsBlankString(x))
AllSame(list) == \A i, j \in DOMAIN list : list[i] = list[j]
WordsOf(x) == Range(split(x))
\* a word that is in every string of the list
ShareAWord(list) ==
    \E w \in UNION {WordsOf(list[i]) : i \in DOMAIN list} :
        \A i \in DOMAIN list : w \in WordsOf(list[i])
ShortestWordCount(list) ==
    CHOOSE n \in {Len(split(list[i])) : i \in DOMAIN list} :
        \A i \in DOMAIN list : n <= Len(split(list[i]))
\* the first n words are the same in every string of the list
LeadEqual(list, n) ==
    \A m \in 1..n : \A i, j \in DOMAIN list : split(list[i])[m] = split(list[j])[m]
\* the last n words are the same in every string of the list
TrailEqual(list, n) ==
    \A m \in 1..n : \A i, j \in DOMAIN list :
        split(list[i])[Len(split(list[i])) - m + 1] = split(list[j])[Len(split(list[j])) - m + 1]
LongestLead(list) ==
    CHOOSE n \in 0..ShortestWordCount(list) :
        LeadEqual(list, n) /\ \A m \in (n + 1)..ShortestWordCount(list) : ~LeadEqual(list, m)
LongestTrail(list) ==
    CHOOSE n \in 0..ShortestWordCount(list) :
        TrailEqual(list, n) /\ \A m \in (n + 1)..ShortestWordCount(list) : ~TrailEqual(list, m)
WildcardCount(t) == Cardinality({n \in 0..Len(t) : WildcardAt(t, n)})

\* C18 as stated, with the rule for blank lists read first: "" for an empty
\* list or inputs that are all empty or whitespace; otherwise the sole input
\* for one string, the common string for identical strings, and "[blank]"
\* for two or more distinct strings that share no word.
C18_EdgeCasesOverInputs ==
    gen_pc = "done" =>
        IF \A i \in DOMAIN strings : IsBlankString(strings[i])
        THEN generalized = <<>>
        ELSE /\ Len(strings) = 1 => generalized = strings[1]
             /\ AllSame(strings) => generalized = strings[1]
             /\ (/\ Len(strings) >= 2
                 /\ \A i, j \in DOMAIN strings : i # j => strings[i] # strings[j]
                 /\ ~ShareAWord(strings))
                => generalized = BLANK

\* C18, amended: the inputs that are empty or whitespace are dropped first.
\* The result is "" when none is left, the input left when there is one,
\* the common string when those left are all the same, and "[blank]" when
\* two or more are left that are not all the same and share no word.
C18_EdgeCasesOverNonBlank ==
    gen_pc = "done" =>
        LET left == NonBlankInputs
        IN  /\ left = <<>> => generalized = <<>>
            /\ Len(left) = 1 => generalized = left[1]
            /\ (Len(left) >= 2 /\ AllSame(left)) => generalized = left[1]
            /\ (Len(left) >= 2 /\ ~AllSame(left) /\ ~ShareAWord(left))
               => generalized = BLANK

\* "x" and "y z" gave "[blank]"
C18_Witness ==
    /\ gen_pc = "done"
    /\ strings = << <<"x">>, <<"y", " ", "z">> >>
    /\ generalized = BLANK

\* "x" beside a whitespace string came back unchanged
C18_BlankDroppedReached ==
    /\ gen_pc = "done"
    /\ strings = << <<"x">>, <<" ">> >>
    /\ generalized = <<"x">>

\* a sole input with a leading space came back unchanged
C18_SoleInputReached ==
    /\ gen_pc = "done"
    /\ strings = << <<" ", "a", " ", "b">> >>
    /\ generalized = strings[1]

\* C19: for two or more inputs that are not blank and not all the same, the
\* result is the first prefix_len words of the first of them, one wildcard
\* and its last suffix_len words, joined by single spaces, where prefix_len
\* and suffix_len are the longest leading and trailing runs of words equal
\* in every input, each found on its own and used in full; the wildcard is
\* in the result once.
C19_Reconstruction ==
    gen_pc = "done" =>
        LET left == NonBlankInputs
        IN  (Len(left) >= 2 /\ ~AllSame(left)) =>
               LET first == split(left[1])
                   prefix_len == LongestLead(left)
                   suffix_len == LongestTrail(left)
                   before == IF prefix_len = 0 THEN <<>>
                             ELSE JoinSpace(SubSeq(first, 1, prefix_len)) \o <<" ">>
                   after == IF suffix_len = 0 THEN <<>>
                            ELSE <<" ">> \o JoinSpace(SubSeq(first, Len(first) - suffix_len + 1,
                                                             Len(first)))
               IN  /\ generalized = before \o BLANK \o after
                   /\ WildcardCount(generalized) = 1

\* "a b" and "a b a b": two words lead, two words trail, and the first input
\* has two words in all
C19_Witness ==
    /\ gen_pc = "done"
    /\ strings = << <<"a", " ", "b">>, <<"a", " ", "b", " ", "a", " ", "b">> >>
    /\ LongestLead(strings) + LongestTrail(strings) > ShortestWordCount(strings)
    /\ generalized = <<"a", " ", "b", " ">> \o BLANK \o <<" ", "a", " ", "b">>

\* "a c b" and "a b" gave "a [blank] b"
C19_BothSidesReached ==
    /\ gen_pc = "done"
    /\ strings = << <<"a", " ", "c", " ", "b">>, <<"a", " ", "b">> >>
    /\ generalized = <<"a", " ">> \o BLANK \o <<" ", "b">>

\* ------------------------------------------------------------------------
\* Properties of extract_persons
\* ------------------------------------------------------------------------
\* a token without its leading and trailing characters that are not letters
LettersOf(w) ==
    LET at == {i \in DOMAIN w : IsUpper(w[i]) \/ IsLower(w[i])}
    IN  IF at = {} THEN <<>>
        ELSE SubSeq(w, CHOOSE i \in at : \A j \in at : i <= j,
                       CHOOSE i \in at : \A j \in at : j <= i)
\* at least three characters, the first a capital, and not in the stop-list
IsCandidate(w) ==
    /\ Len(LettersOf(w)) >= 3
    /\ IsUpper(LettersOf(w)[1])
    /\ lower(LettersOf(w)) \notin NON_PERSON_WORDS
\* capitalised and not in the stop-list
IsCapitalised(w) ==
    /\ LettersOf(w) # <<>>
    /\ IsUpper(LettersOf(w)[1])
    /\ lower(LettersOf(w)) \notin NON_PERSON_WORDS
\* the set the claim describes
StatedPersons(title) ==
    LET tokens == split(title)
    IN  {lower(LettersOf(tokens[i])) :
             i \in {j \in DOMAIN tokens :
                       /\ IsCandidate(tokens[j])
                       /\ j = 1 => (Len(tokens) >= 2 /\ IsCapitalised(tokens[2]))}}
\* no token of the title starts or ends with an apostrophe or a hyphen
NoEdgeMarks(title) ==
    \A i \in DOMAIN split(title) :
        LET w == split(title)[i]
        IN  w[1] \notin {"'", "-"} /\ w[Len(w)] \notin {"'", "-"}

\* C20: extract_persons returns the lowercased tokens that, with the
\* non-letter characters around them stripped, have length at least 3, start
\* with a capital and are not in the stop-list, the first token only if the
\* second is capitalised and not in the stop-list.
C20_StatedPersonsReturned ==
    ep_pc = "done" => ep_persons = StatedPersons(ep_title)

\* on titles whose tokens do not start or end with an apostrophe or a
\* hyphen, the set returned is the set described
C20_UnmarkedTitlesAgree ==
    (ep_pc = "done" /\ NoEdgeMarks(ep_title)) => ep_persons = StatedPersons(ep_title)

\* "Will 'Trump' win": the quoted name is not returned
C20_QuotedNameLost ==
    /\ ep_pc = "done"
    /\ ep_title = JoinSpace(<< <<"W","i","l","l">>, <<"'","T","r","u","m","p","'">>,
                               <<"w","i","n">> >>)
    /\ ep_persons = {}

\* "Will Trump win": the name is returned; a title of one token gives the
\* empty set
C20_PlainNameReached ==
    /\ ep_pc = "done"
    /\ ep_title = JoinSpace(<< <<"W","i","l","l">>, <<"T","r","u","m","p">>, <<"w","i","n">> >>)
    /\ ep_persons = {<<"t","r","u","m","p">>}

C20_SingleTokenEmpty ==
    (ep_pc = "done" /\ Len(split(ep_title)) = 1) => ep_persons = {}

\* ------------------------------------------------------------------------
\* Properties of the outputs of main
\* ------------------------------------------------------------------------
SomethingWritten ==
    matched_events_csv.state = "written" \/ matched_markets_csv.state = "written"

C21_MidLoopReached ==
    /\ main_pc = "step3" /\ e_i = 2 /\ Len(event_df) = 2
    /\ all_market_matches # <<>>
    /\ ~SomethingWritten

\* ------------------------------------------------------------------------
\* Properties of the mutual-best filter under ties and row order
\* ------------------------------------------------------------------------
\* the input of the filter and the column it ranks by
FilterInput == IF level = "event" THEN df ELSE candidates
ScoreColumn == IF level = "event" THEN "score" ELSE "market_score"
SurvivorsOf(frame) ==
    IF level = "event" THEN Range(EventSurvivors(frame)) ELSE Range(MarketSurvivors(frame))
\* the same rows in another order; for the event table only the orders a
\* descending sort can leave
Reordered ==
    {f \in Orderings(Range(FilterInput)) :
        level = "event" =>
            \A i, j \in DOMAIN f : i < j => f[i][ScoreColumn] >= f[j][ScoreColumn]}
\* a key whose highest score is reached by two rows
TiedKey(frame, by) ==
    \E i, j \in DOMAIN frame :
        /\ i # j /\ frame[i][by] = frame[j][by]
        /\ frame[i][ScoreColumn] = frame[j][ScoreColumn]
        /\ \A n \in DOMAIN frame :
              frame[n][by] = frame[i][by] => frame[n][ScoreColumn] <= frame[i][ScoreColumn]

\* C22: the survivors of the mutual-best filter are the same for every row
\* order of the same scored pairs.
C22_OrderIndependent ==
    mpc = "done" => \A f \in Reordered : SurvivorsOf(f) = Range(result)

\* two orders of the same event pairs, both in descending score order, with
\* different survivors
C22_EventOrderMatters ==
    /\ level = "event" /\ mpc = "done"
    /\ \E f \in Reordered : SurvivorsOf(f) # Range(result)

\* two orders of the same market pairs with different survivors
C22_MarketOrderMatters ==
    /\ level = "market" /\ mpc = "done"
    /\ \E f \in Reordered : SurvivorsOf(f) # Range(result)

\* without a tie for a key's highest score the order does not matter
C22_NoTieOrderIndependent ==
    (mpc = "done" /\ ~TiedKey(FilterInput, IF level = "event" THEN "kalshi_event" ELSE "kalshi_ticker")
                  /\ ~TiedKey(FilterInput, IF level = "event" THEN "poly_event" ELSE "poly_ticker"))
       => \A f \in Reordered : SurvivorsOf(f) = Range(result)

\* C24: for a non-empty input, the first row in input order among those with
\* the highest score overall is in the output of mutual_best_match and of
\* _market_mutual_best, so the output is not empty.
C24_TopPairSurvives ==
    (mpc = "done" /\ FilterInput # <<>>) =>
        LET frame == FilterInput
            tops == {i \in DOMAIN frame :
                        \A j \in DOMAIN frame : frame[j][ScoreColumn] <= frame[i][ScoreColumn]}
            top == CHOOSE i \in tops : \A j \in tops : i <= j
        IN  /\ \E n \in DOMAIN result : result[n] = frame[top]
            /\ result # <<>>

\* the filter ran on four pairs of which two tie for the highest score
\* overall, and the first of the two is in the output, the other is not
C24_Witness ==
    /\ mpc = "done" /\ Len(FilterInput) = 4
    /\ FilterInput[1][ScoreColumn] = FilterInput[2][ScoreColumn]
    /\ \A j \in DOMAIN FilterInput : FilterInput[j][ScoreColumn] <= FilterInput[1][ScoreColumn]
    /\ \E n \in DOMAIN result : result[n] = FilterInput[1]
    /\ \A n \in DOMAIN result : result[n] # FilterInput[2]

\* the same at the market level, where the first of the tied rows is not the
\* first row of the input
C24_MarketTopReached ==
    /\ level = "market" /\ mpc = "done" /\ Len(candidates) >= 3
    /\ candidates[1].market_score < candidates[2].market_score
    /\ candidates[2].market_score = candidates[3].market_score
    /\ \A j \in DOMAIN candidates : candidates[j].market_score <= candidates[2].market_score
    /\ \E n \in DOMAIN result : result[n] = candidates[2]

\* ------------------------------------------------------------------------
\* Properties of generalize_strings with _extract_blank
\* ------------------------------------------------------------------------
\* words separated by single spaces, and at least one word
SingleSpaced(x) == x # <<>> /\ JoinSpace(split(x)) = x
\* the words of the title between the common prefix and the common suffix
\* of the group
SpanOf(title, group) ==
    LET words == split(title)
        from == LongestLead(group) + 1
        to == Len(words) - LongestTrail(group)
    IN  IF from > to THEN <<>> ELSE SubSeq(words, from, to)

\* the common prefix and the common suffix of the group share a word of
\* the title
Overlap(title, group) ==
    LongestLead(group) + LongestTrail(group) > Len(split(title))
ClaimedGroup ==
    /\ gen_pc = "extracted"
    /\ Len(strings) >= 2
    /\ \A i \in DOMAIN strings : SingleSpaced(strings[i])

\* C23 as stated: for a group of two or more titles of single-spaced words
\* whose generalisation holds the wildcard, _extract_blank(T, C) for a title
\* C of the group is the words of C between the common prefix and the common
\* suffix, and None exactly when there is no such word.
C23_ExtractRecoversSpan ==
    ClaimedGroup =>
        eb_blank = IF SpanOf(eb_title, strings) = <<>> THEN None
                   ELSE JoinSpace(SpanOf(eb_title, strings))

\* C23, amended: the same when the common prefix and the common suffix do
\* not share a word of C.  When they do, _extract_blank(T, C) is the words of
\* C after the common prefix, and None when C has none.
C23_ExtractRecoversSpanNoOverlap ==
    ClaimedGroup =>
        /\ eb_template = generalized
        /\ ~Overlap(eb_title, strings) =>
              eb_blank = IF SpanOf(eb_title, strings) = <<>> THEN None
                         ELSE JoinSpace(SpanOf(eb_title, strings))
        /\ Overlap(eb_title, strings) =>
              LET words == split(eb_title)
                  from == LongestLead(strings) + 1
              IN  eb_blank = IF from > Len(words) THEN None
                             ELSE JoinSpace(SubSeq(words, from, Len(words)))

\* "a a a" in the group ("a a", "a a a"), template "a a [blank] a a": two
\* words lead, two trail, and the third word comes back as the fill
C23_OverlapReached ==
    /\ gen_pc = "extracted"
    /\ strings = << <<"a", " ", "a">>, <<"a", " ", "a", " ", "a">> >>
    /\ generalized = <<"a", " ", "a", " ">> \o BLANK \o <<" ", "a", " ", "a">>
    /\ eb_title = <<"a", " ", "a", " ", "a">>
    /\ Overlap(eb_title, strings) /\ SpanOf(eb_title, strings) = <<>>
    /\ eb_blank = <<"a">>

\* "a c b" in the group ("a c b", "a b", "a c b"), template "a [blank] b":
\* the fill is "c"
C23_Witness ==
    /\ gen_pc = "extracted"
    /\ strings = << <<"a", " ", "c", " ", "b">>, <<"a", " ", "b">>,
                    <<"a", " ", "c", " ", "b">> >>
    /\ generalized = <<"a", " ">> \o BLANK \o <<" ", "b">>
    /\ eb_title = <<"a", " ", "c", " ", "b">>
    /\ eb_blank = <<"c">>

\* "a b" in the group ("a c b", "a b"): nothing lies between prefix and suffix
C23_EmptySpanReached ==
    /\ gen_pc = "extracted"
    /\ strings = << <<"a", " ", "c", " ", "b">>, <<"a", " ", "b">> >>
    /\ eb_title = <<"a", " ", "b">>
    /\ eb_blank = None

\* a group without a common word: the fill is the whole title
C23_WholeTitleReached ==
    /\ gen_pc = "extracted"
    /\ strings = << <<"x">>, <<"y", " ", "z">> >>
    /\ generalized = BLANK
    /\ eb_title = <<"y", " ", "z">>
    /\ eb_blank = eb_title

\* ------------------------------------------------------------------------
\* Properties of generalize_strings under reordering
\* ------------------------------------------------------------------------
\* the lists with the same strings, each as often, in any order
Rearranged(list) ==
    {[i \in DOMAIN list |-> list[f[i]]] : f \in Orderings(DOMAIN list)}

\* C26: generalize_strings returns the same string for every permutation
\* of its list of inputs.
C26_OrderOfInputsIrrelevant ==
    gen_pc = "done" =>
        \A other \in Rearranged(strings) : generalize_strings(other) = generalized

\* three different inputs of different word counts, with a blank one among
\* them, a common first word and a wildcard in the result
C26_Witness ==
    /\ gen_pc = "done"
    /\ strings = << <<"a", " ", "c", " ", "b">>, <<" ">>, <<"a", " ", "b">> >>
    /\ generalized = <<"a", " ">> \o BLANK \o <<" ", "b">>
    /\ Cardinality(Rearranged(strings)) = 6

\* inputs that differ in their whitespace only, in both orders
C26_WhitespaceVariantsReached ==
    /\ gen_pc = "done"
    /\ strings = << <<"a", " ", " ", "b">>, <<"a", " ", "b">> >>
    /\ generalized = <<"a", " ", "b", " ">> \o BLANK \o <<" ", "a", " ", "b">>

\* ------------------------------------------------------------------------
\* Properties of request_with_retries
\* ------------------------------------------------------------------------
RetryEnded == rq_pc \in {"returned", "HTTPError", "MaxRetries"}
\* the first n answers of the server were all 429
AllLimited(n) == \A m \in 1..n : rq_server[m] = 429
\* the number of the first answer that is not a 429, 0 if all five are
FirstOther ==
    IF AllLimited(5) THEN 0
    ELSE CHOOSE n \in 1..5 : rq_server[n] # 429 /\ AllLimited(n - 1)

C27_Safe ==
    /\ rq_sent <= 5
    /\ \A n \in DOMAIN rq_slept : rq_slept[n] = 2 ^ n /\ rq_server[n] = 429
    /\ rq_pc = "returned" =>
          /\ FirstOther = rq_sent /\ rq_result = rq_sent
          /\ rq_server[rq_sent] < 400
          /\ Len(rq_slept) = rq_sent - 1
    /\ rq_pc = "HTTPError" =>
          /\ FirstOther = rq_sent
          /\ rq_server[rq_sent] >= 400
          /\ Len(rq_slept) = rq_sent - 1
    /\ rq_pc = "MaxRetries" =>
          /\ AllLimited(5) /\ rq_sent = 5
          /\ rq_slept = <<2, 4, 8, 16, 32>>
    /\ (RetryEnded /\ AllLimited(5)) => rq_pc = "MaxRetries"

\* C27: request_with_retries issues at most 5 requests; it returns the first
\* answer that is not a 429 if it is a success and raises HTTPError at once
\* if it is an error; it sleeps 2^n seconds after the n-th 429; after five
\* 429 it raises "Max retries exceeded"; and every call ends.
C27_BoundedRetries == [](C27_Safe) /\ <>(RetryEnded)

\* five 429 in a row: five requests, waits of 2, 4, 8, 16 and 32 seconds,
\* then the exception
C27_Witness ==
    /\ rq_pc = "MaxRetries" /\ rq_sent = 5
    /\ rq_slept = <<2, 4, 8, 16, 32>>
    /\ rq_server[6] = 200

\* two 429, then a success: the third answer is returned after 2 + 4 seconds
C27_ReturnedAfterRetriesReached ==
    /\ rq_pc = "returned" /\ rq_result = 3 /\ rq_sent = 3 /\ rq_slept = <<2, 4>>

\* a 503 as the first answer: the error is raised after one request, although
\* the next answer would have been a success
C27_NoRetryOnErrorReached ==
    /\ rq_pc = "HTTPError" /\ rq_sent = 1 /\ rq_slept = <<>>
    /\ rq_server[1] = 503 /\ rq_server[2] = 200

\* ------------------------------------------------------------------------
\* Properties of the outputs over several runs
\* ------------------------------------------------------------------------
\* the event pair of the row is in matched_events.csv
InEventsFile(row) ==
    \E n \in DOMAIN matched_events_csv.rows :
        /\ matched_events_csv.rows[n].kalshi_event = row.kalshi_event
        /\ matched_events_csv.rows[n].poly_event = row.poly_event

\* C25: after any sequence of successful runs of main, every row of
\* matched_markets.csv is about an event pair of matched_events.csv, and
\* the rows are the market pairs of the latest run, also when it found none.
C25_TablesOfSameRun ==
    main_pc = "done" =>
        /\ matched_events_csv.rows = event_df
        /\ \A n \in DOMAIN matched_markets_csv.rows : InEventsFile(matched_markets_csv.rows[n])
        /\ Range(matched_markets_csv.rows) = Range(all_market_matches)

\* the latest run matched K2 with P1 and found no market pair; the file of
\* market pairs still holds the pairs of K1 and P1 of an earlier run
C25_StaleTableReached ==
    /\ main_pc = "done"
    /\ all_market_matches = <<>>
    /\ Len(event_df) = 1 /\ event_df[1].kalshi_event = "K2" /\ event_df[1].poly_event = "P1"
    /\ matched_events_csv.rows = event_df
    /\ matched_markets_csv.state = "written"
    /\ \E n \in DOMAIN matched_markets_csv.rows :
          matched_markets_csv.rows[n].kalshi_event = "K1"

\* when the latest run found a market pair, the two files are of that run
C25_SameRunWhenPairsFound ==
    (main_pc = "done" /\ all_market_matches # <<>>) =>
        /\ matched_events_csv.rows = event_df
        /\ \A n \in DOMAIN matched_markets_csv.rows : InEventsFile(matched_markets_csv.rows[n])
        /\ Range(matched_markets_csv.rows) = Range(all_market_matches)

====
